---- MODULE Spec2Model ----
(***************************************************************************)
(* Model of the challenge controllers of redteam_core.challenge_pool:      *)
(*   Controller                           (controller.py)                  *)
(*   ResponseQualityAdversarialController (response_quality_adversarial_v4)*)
(*   HBController                         (humanize_behaviour_v4)          *)
(*   ABSController                        (ab_sniffer_v1)                  *)
(* One behaviour is one call of start_challenge() on one controller.       *)
(* Scores and similarities are in hundredths (0.6 is 60).                  *)
(***************************************************************************)
EXTENDS Integers, Sequences, FiniteSets, TLC

\* ------------------------------------------------------------------ bounds
\* A run has at most MaxSize miner commits, tasks, seed inputs, reference commits
\* and fixed reference images together, and its miner commits times its tasks
\* and seed inputs stay below MaxSize.
MaxSize == 3
\* Most commits in reference_comparison_commits.
MaxRefs == 1
\* Most images in baseline_reference_comparison_docker_hub_ids.
MaxFixed == 1
\* Largest maxsize of a single LRUCache; there is one key more.
MaxCacheSize == 2
\* Most get and set calls made to a single LRUCache.
MaxLRUCalls == 5
\* Largest maxsize_per_challenge of a ScoringLRUCache; there is one image more.
MaxPerChallenge == 1
\* Most calls made to one ScoringLRUCache.
MaxCalls == 3
\* Most identities of the metagraph when exclude_same_miner is called alone.
MaxUids == 3
\* Most active challenges of a MinerManager.
MaxManagers == 2
\* Largest configured challenge_incentive_weight.
MaxWeight == 2
\* Most controllers of one family created in one process.
MaxInstances == 2

\* --------------------------------------------------------------- constants
\* max_retries of _get_challenge_from_container.
max_retries == 3
\* default of comparison_config["max_self_comparison_score"], 0.9.
max_self_comparison_score == 90
\* the comparison score at which HBController and ABSController refuse to score, 0.6.
HighComparisonScore == 60
\* the number of hex characters of a sha256 digest.
DigestHexLen == 64
\* constants.CHALLENGE_SCORES_WEIGHT and constants.ALPHA_BURN_WEIGHT, 0.5 each.
CHALLENGE_SCORES_WEIGHT == 50
ALPHA_BURN_WEIGHT == 50

\* ------------------------------------------------------------------ values
None == <<>>
Some(x) == <<x>>

Variants == {"base", "rqa", "hb", "abs"}

\* What the score endpoint can answer: a number, or anything else.
ScoreVals == {0, 90}
ScoreResponses == [kind : {"num"}, val : ScoreVals] \cup {[kind |-> "bad", val |-> 0]}

\* What the compare endpoint can answer: numbers, also outside [0, 1].
SimVals == {0, 30, 60, 90, 120}

\* The outcomes of a POST /solve: an output, or an error message.
SolveErrors == {"Timeout occurred while trying to solve challenge."}

\* Image references: <repo><sep><hexlen hex characters>.
ImageForms == {[sep |-> "@sha256:", hexlen |-> DigestHexLen],
               [sep |-> ":", hexlen |-> 0],
               [sep |-> "@sha256:", hexlen |-> DigestHexLen - 1]}
Image(repo, form) == [repo |-> repo, sep |-> form.sep, hexlen |-> form.hexlen]

\* Commit keys: the baseline, the fixed reference images and the miners.
BaselineKey == <<"baseline", 0>>
FixedKey(j) == <<"fixed", j>>
MinerKey(k) == <<"miner", k>>
KindOf(key) == key[1]

VARIABLES
    variant,        \* which controller class runs
    baseline_commit,\* Controller.baseline_commit (docker_hub_id None or an image)
    miner_commits,  \* Controller.miner_commits: sequence of [uid, hotkey, docker_hub_id]
    reference_comparison_commits, \* commits scored in earlier runs
    fixed_to_score, \* baseline_reference_comparison_commits_to_score (hb, abs)
    num_tasks,      \* challenge_info["num_tasks"]
    seed_inputs,    \* Controller.seed_inputs
    challenge_inputs, \* the local list of start_challenge
    attempt,        \* the attempt of _get_challenge_from_container, 0 when none runs
    pc,             \* position in start_challenge
    pos,            \* index in RunOrder of the commit being processed
    idx,            \* loop index over challenge_inputs (or reference logs)
    refi,           \* loop index over the reference commits of a comparison
    responses,      \* rqa: the (input, output, error) triples collected so far
    cmp_output,     \* abs: the output all comparisons of the current miner use
    scoring_logs,   \* key -> the commit's scoring_logs
    comparison_logs,\* miner index -> (docker_hub_id -> list of ComparisonLog)
    cache,          \* the class-level _baseline_reference_cache: docker_hub_id -> commit
    exc,            \* the exception caught by the except clause, "" when none
    raised,         \* "" or the exception that left start_challenge
    challenge_live, \* the challenge container runs
    miner_live,     \* keys of the containers bound to the miner port
    started,        \* keys for which run_container was called on the miner port
    removed_by_port,\* number of remove_container_by_port calls so far
    torn_down,      \* miner indices whose clean-up after the try block ran
    score_requests, \* number of POST /score requests sent so far
    setup_outcome,  \* how _setup_challenge ended, "" before it ran
    last_similarity,\* the similarity of the last compare request, None before any
    last_response   \* the answer handed to the last _compare_outputs call made
                    \* on its own, None before any

\* The state of a ScoringLRUCache (services/rewarding/cache.py).
VARIABLES
    maxsize_per_challenge, \* ScoringLRUCache.maxsize_per_challenge
    caches,         \* challenge -> LRUCache: [cache: list of [key, value], oldest
                    \* first, evictions]
    hits,           \* ScoringLRUCache.hits
    misses,         \* ScoringLRUCache.misses
    n_calls,        \* number of ScoringLRUCache calls so far
    n_gets,         \* number of ScoringLRUCache.get calls so far
    last_access,    \* challenge -> key -> n_calls at the key's latest get or set
    last_call,      \* the latest call: [op, challenge, key, result, error]
    threads         \* thread -> [op, key, pc, value, result, error]: the call
                    \* the thread is in, the statement it is at, the value it
                    \* holds, the result and the exception of its last call

cacheVars == <<maxsize_per_challenge, caches, hits, misses, n_calls, n_gets,
               last_access, last_call, threads>>

\* The state of a MinerManager (redteam_core/validator/miner_manager.py).
VARIABLES
    metagraph,      \* metagraph.axons: list of [ip, coldkey], uid = position
    input_scores,       \* the scores handed to exclude_same_miner
    active_challenges, \* list of [weight, scores, raises]: the configured
                    \* challenge_incentive_weight, what the challenge manager's
                    \* get_challenge_scores returns, whether it raises instead
    returned        \* the outcome of the call made, None before it

managerVars == <<metagraph, input_scores, active_challenges, returned>>

\* The controllers of one family (HBController or ABSController) created in one
\* process; their class-level cache is the variable cache.
VARIABLES
    instances,      \* list of [to_score, at]: a controller's
                    \* baseline_reference_comparison_commits_to_score and the
                    \* position in it of the next commit its run sets up
    rerun           \* the images a container was started for while the class
                    \* cache held them with scoring logs

\* The validator process's AutoUpdater and the git repository it watches.
VARIABLES
    updater         \* [head, origin, stop_flag, calls, found, checks]: the commit
                    \* checked out, the commit of the update branch on origin,
                    \* _stop_flag, what the last update check called on the
                    \* updater, in order, the two versions it compared, and the
                    \* number of checks made

\* One challenge input on its way through _score_miner_with_new_inputs, for one
\* miner after the other.
VARIABLES
    submission      \* [exclude, given, challenge_input, requests, scored, logged]:
                    \* challenge_info["exclude_miner_input_key"], the input as it
                    \* was generated, the input object as it is now, the JSON
                    \* bodies posted to /solve, the miner_input of the bodies
                    \* posted to /score, the miner_input of the scoring logs

\* A challenge manager (score provider) and the call of get_challenge_scores
\* made on it.
VARIABLES
    provider        \* [class, n, miner_states, called, current_time, scores,
                    \* returned]: the manager's class, metagraph.n, the values of
                    \* self.miner_states, whether get_challenge_scores was
                    \* called, time.time() in it, its local scores before the
                    \* softmax, what it returned

\* What a run of start_challenge leaves alone.
services == <<cacheVars, managerVars, instances, rerun, updater, submission, provider>>

\* The state of a controller and of its start_challenge call.
controllerVars ==
    <<variant, baseline_commit, miner_commits, reference_comparison_commits,
      fixed_to_score, num_tasks, seed_inputs, challenge_inputs, attempt, pc, pos,
      idx, refi, responses, cmp_output, scoring_logs, comparison_logs, cache, exc,
      raised, challenge_live, miner_live, started, removed_by_port, torn_down,
      score_requests, setup_outcome, last_similarity, last_response>>

vars == <<controllerVars, services>>

config == <<variant, baseline_commit, miner_commits, reference_comparison_commits,
            fixed_to_score, num_tasks, seed_inputs>>

\* ----------------------------------------------------------- the data model
Input(src, n) == [src |-> src, n |-> n]

\* ScoringLog of redteam_core.validator.models; raw is the score the challenge
\* returned for the log, kept beside the stored score.
ScoringLog(in, out, score, err) ==
    [miner_input |-> in, miner_output |-> out, score |-> score,
     baseline_score |-> None, error |-> err, raw |-> score]

ComparisonLog(in, refHotkey, sim) ==
    [miner_input |-> in, reference_hotkey |-> refHotkey, similarity_score |-> sim]

MinerChallengeCommit(uid, hotkey, image) ==
    [miner_uid |-> uid, miner_hotkey |-> hotkey, docker_hub_id |-> image]

Hotkey(k) == <<"hk", k>>
BaselineHotkey == <<"baseline", 0>>
FixedHotkey == <<"baseline-reference", 0>>
BaselineUid == -1

\* The output a commit gives for an input.
Output(key, in) == [by |-> key, for |-> in]

\* A commit of an earlier run, with the one scoring log it got there.
OldLog(j, withOutput) ==
    ScoringLog(Some(Input("old", j)),
               IF withOutput THEN Some(Output(<<"ref", j>>, Input("old", j))) ELSE None,
               0, "")
OldCommit(j, h, withOutput) ==
    [miner_uid |-> 100 + j, miner_hotkey |-> Hotkey(h),
     docker_hub_id |-> Image(<<"ref", j>>, [sep |-> "@sha256:", hexlen |-> DigestHexLen]),
     scoring_logs |-> <<OldLog(j, withOutput)>>, penalty |-> 0]

IsGating == variant \in {"hb", "abs"}

\* HBController.__init__ / ABSController.__init__: the fixed reference images that
\* are not in the class cache with scoring logs get a new commit to score.
RECURSIVE FixedToScore(_, _)
FixedToScore(ids, cached) ==
    IF ids = <<>> THEN <<>>
    ELSE LET id == Head(ids)
             rest == FixedToScore(Tail(ids), cached)
         IN IF id \in DOMAIN cached /\ cached[id].scoring_logs # <<>>
            THEN rest
            ELSE <<MinerChallengeCommit(BaselineUid, FixedHotkey, id)>> \o rest

AllKeys == {BaselineKey} \cup {FixedKey(j) : j \in 1..MaxFixed}
           \cup {MinerKey(k) : k \in 1..MaxSize}

HasBaseline == baseline_commit.docker_hub_id # None

\* The commit a key stands for, and its image reference.
CommitOf(key) ==
    CASE KindOf(key) = "baseline" -> baseline_commit
      [] KindOf(key) = "fixed" -> fixed_to_score[key[2]]
      [] OTHER -> miner_commits[key[2]]
ImageOf(key) ==
    IF KindOf(key) = "baseline" THEN baseline_commit.docker_hub_id[1]
    ELSE CommitOf(key).docker_hub_id

\* The order in which start_challenge sets commits up: the baseline (base, rqa) or
\* the fixed references to score (hb, abs), then the miner commits.
RunOrder ==
    (IF variant \in {"base", "rqa"} /\ HasBaseline THEN <<BaselineKey>> ELSE <<>>)
    \o [j \in 1..Len(fixed_to_score) |-> FixedKey(j)]
    \o [k \in 1..Len(miner_commits) |-> MinerKey(k)]
cur == RunOrder[pos]

EmptyMap == [x \in {} |-> <<>>]

\* No AutoUpdater is running.
NoUpdater ==
    [head |-> 0, origin |-> 0, stop_flag |-> FALSE, calls |-> <<>>, found |-> None,
     checks |-> 0]

\* No challenge input is followed.
NoSubmission ==
    [exclude |-> {}, given |-> EmptyMap, challenge_input |-> EmptyMap,
     requests |-> <<>>, scored |-> <<>>, logged |-> <<>>]

\* No challenge manager has its miner states yet.
NoProvider ==
    [class |-> "", n |-> 0, miner_states |-> <<>>, called |-> FALSE,
     current_time |-> 0, scores |-> <<>>, returned |-> <<>>]

\* No ScoringLRUCache is in use.
NoScoringCache ==
    /\ maxsize_per_challenge = 0
    /\ caches = EmptyMap
    /\ hits = 0
    /\ misses = 0
    /\ n_calls = 0
    /\ n_gets = 0
    /\ last_access = EmptyMap
    /\ last_call = None
    /\ threads = <<>>

\* No MinerManager is in use.
NoMinerManager ==
    /\ metagraph = <<>>
    /\ input_scores = <<>>
    /\ active_challenges = <<>>
    /\ returned = None

\* A miner's image is a digest reference or a tag reference; the image of the
\* baseline or of a fixed reference is a digest reference, whole or cut short.
Init ==
    /\ variant \in Variants
    /\ \E n \in 0..MaxSize, t \in 0..MaxSize, s \in 0..MaxSize, r \in 0..MaxRefs,
          m \in 0..MaxFixed :
         /\ n + t + s + r + m <= MaxSize
         /\ n * (t + s) < MaxSize
         /\ m > 0 => variant \in {"hb", "abs"}
         /\ \E fs \in [1..n -> {f \in ImageForms : f.hexlen # DigestHexLen - 1}] :
              miner_commits =
                [k \in 1..n |-> MinerChallengeCommit(k, Hotkey(k), Image(<<"m", k>>, fs[k]))]
         /\ num_tasks = t
         /\ seed_inputs = [j \in 1..s |-> Input("seed", j)]
         /\ \E hs \in [1..r -> 0..1], ws \in [1..r -> BOOLEAN] :
              reference_comparison_commits = [j \in 1..r |-> OldCommit(j, hs[j], ws[j])]
         /\ \E fs \in [1..m -> {f \in ImageForms : f.sep = "@sha256:"}] :
              fixed_to_score =
                FixedToScore([j \in 1..m |-> Image(<<"fixed", j>>, fs[j])], EmptyMap)
    /\ baseline_commit \in
         {MinerChallengeCommit(BaselineUid, BaselineHotkey, None)} \cup
         {MinerChallengeCommit(BaselineUid, BaselineHotkey, Some(Image(<<"baseline", 0>>, f)))
              : f \in IF variant \in {"base", "rqa"}
                       THEN {g \in ImageForms : g.sep = "@sha256:"} ELSE {}}
    /\ cache = EmptyMap
    /\ challenge_inputs = <<>>
    /\ attempt = 0
    /\ pc = "setup_challenge"
    /\ pos = 0
    /\ idx = 0
    /\ refi = 0
    /\ responses = <<>>
    /\ cmp_output = None
    /\ scoring_logs = [k \in AllKeys |-> <<>>]
    /\ comparison_logs = [k \in 1..Len(miner_commits) |-> EmptyMap]
    /\ exc = ""
    /\ raised = ""
    /\ challenge_live = FALSE
    /\ miner_live = {}
    /\ started = {}
    /\ removed_by_port = 0
    /\ torn_down = {}
    /\ score_requests = 0
    /\ setup_outcome = ""
    /\ last_similarity = None
    /\ last_response = None
    /\ instances = <<>>
    /\ rerun = {}
    /\ updater = NoUpdater
    /\ submission = NoSubmission
    /\ provider = NoProvider
    /\ NoScoringCache
    /\ NoMinerManager

\* No challenge is run: a controller of no commits whose start_challenge is over.
NoChallengeRun ==
    /\ variant = "base"
    /\ baseline_commit = MinerChallengeCommit(BaselineUid, BaselineHotkey, None)
    /\ miner_commits = <<>>
    /\ reference_comparison_commits = <<>>
    /\ fixed_to_score = <<>>
    /\ num_tasks = 0
    /\ seed_inputs = <<>>
    /\ cache = EmptyMap
    /\ challenge_inputs = <<>>
    /\ attempt = 0
    /\ pc = "done"
    /\ pos = 0
    /\ idx = 0
    /\ refi = 0
    /\ responses = <<>>
    /\ cmp_output = None
    /\ scoring_logs = [k \in AllKeys |-> <<>>]
    /\ comparison_logs = <<>>
    /\ exc = ""
    /\ raised = ""
    /\ challenge_live = FALSE
    /\ miner_live = {}
    /\ started = {}
    /\ removed_by_port = 0
    /\ torn_down = {}
    /\ score_requests = 0
    /\ setup_outcome = ""
    /\ last_similarity = None
    /\ last_response = None
    /\ instances = <<>>
    /\ rerun = {}
    /\ updater = NoUpdater
    /\ submission = NoSubmission
    /\ provider = NoProvider

\* ------------------------------------------------------- the sandbox adapter
\* docker_utils.is_image_digest_format_valid: <repository>@sha256:<64 hex characters>.
is_image_digest_format_valid(image) ==
    image.sep = "@sha256:" /\ image.hexlen = DigestHexLen

\* docker_utils.remove_container_by_port on the miner port: whatever is bound to
\* the port is removed; the call swallows its own errors.
remove_container_by_port ==
    /\ miner_live' = {}
    /\ removed_by_port' = removed_by_port + 1

\* ------------------------------------------------------------ start_challenge
\* An exception that no except clause of start_challenge catches.
Propagate(e) ==
    /\ raised' = e
    /\ pc' = "raised"

\* The loop over the commits ends one commit early.
Goto_early(p) ==
    /\ pos' = p
    /\ exc' = ""
    /\ pc' = IF p < Len(RunOrder) THEN "setup_miner" ELSE "teardown"

\* Go on with the commit at position p of RunOrder, or with the challenge teardown.
Goto(p) ==
    /\ pos' = p
    /\ exc' = ""
    /\ pc' = IF p <= Len(RunOrder) THEN "setup_miner" ELSE "teardown"

\* ChallengeSetupFailed with the failure swallowed: the run goes on.
ChallengeSetupFailed_swallowed(e) ==
    /\ pc' = "inputs"
    /\ challenge_inputs' = seed_inputs
    /\ UNCHANGED raised

\* start_challenge calls _setup_challenge outside any try block: its exception
\* leaves start_challenge.
ChallengeSetupFailed(e) ==
    /\ Propagate(e)
    /\ UNCHANGED challenge_inputs

\* Controller._setup_challenge, called outside any try block: build the image,
\* remove a stale container, create the network, run the container, check it.
setup_challenge ==
    /\ pc = "setup_challenge"
    /\ \E outcome \in {"ok", "build failed", "run failed", "not alive"} :
         /\ challenge_live' = (outcome \in {"ok", "not alive"})
         /\ setup_outcome' = outcome
         /\ IF outcome = "ok"
            THEN /\ pc' = "inputs"
                 /\ challenge_inputs' = seed_inputs
                 /\ UNCHANGED raised
            ELSE ChallengeSetupFailed(outcome)
    /\ UNCHANGED <<services, config, attempt, pos, idx, refi, responses, cmp_output, scoring_logs,
                   comparison_logs, cache, exc, miner_live, started, removed_by_port,
                   torn_down, score_requests, last_similarity, last_response>>

\* num_tasks inputs fetched on top of the seed inputs.
TargetInputs_on_top == Len(seed_inputs) + num_tasks

\* The length challenge_inputs is extended to: max(num_tasks, len(seed_inputs)).
TargetInputs == IF num_tasks > Len(seed_inputs) THEN num_tasks ELSE Len(seed_inputs)

\* One attempt of Controller._get_challenge_from_container (GET /task).
get_challenge_from_container ==
    /\ pc = "inputs"
    /\ Len(challenge_inputs) < TargetInputs
    /\ \E ok \in BOOLEAN :
         IF ok
         THEN /\ challenge_inputs' =
                   Append(challenge_inputs, Input("task", Len(challenge_inputs) + 1))
              /\ attempt' = 0
              /\ UNCHANGED <<pc, raised>>
         ELSE IF attempt = max_retries - 1
              THEN /\ Propagate("Failed to get challenge")
                   /\ UNCHANGED <<challenge_inputs, attempt>>
              ELSE /\ attempt' = attempt + 1
                   /\ UNCHANGED <<challenge_inputs, pc, raised>>
    /\ UNCHANGED <<services, config, pos, idx, refi, responses, cmp_output, scoring_logs,
                   comparison_logs, cache, exc, challenge_live, miner_live, started,
                   removed_by_port, torn_down, score_requests,
                   setup_outcome, last_similarity, last_response>>

\* The inputs are complete: start_challenge goes on to the first commit.
start_scoring ==
    /\ pc = "inputs"
    /\ Len(challenge_inputs) >= TargetInputs
    /\ Goto(1)
    /\ UNCHANGED <<services, config, challenge_inputs, attempt, idx, refi, responses, cmp_output,
                   scoring_logs, comparison_logs, cache, raised, challenge_live,
                   miner_live, started, removed_by_port, torn_down, score_requests,
                   setup_outcome, last_similarity, last_response>>

\* The first statement executed after _setup_miner_container returned.
WorkPc ==
    CASE variant = "base" -> "score"
      [] variant = "rqa" -> "rqa_solve"
      [] variant = "hb" -> "gen_logs"
      [] variant = "abs" /\ KindOf(cur) = "fixed" -> "ref_outputs"
      [] OTHER -> "abs_solve"

\* setup_miner_container with the digest check after the removal by port.
setup_miner_container_latecheck ==
    /\ pc = "setup_miner"
    /\ remove_container_by_port
    /\ IF ~is_image_digest_format_valid(ImageOf(cur))
       THEN /\ exc' = "Invalid image format"
            /\ pc' = "except"
       ELSE /\ pc' = "setup_run"
            /\ UNCHANGED exc
    /\ UNCHANGED <<services, config, challenge_inputs, attempt, pos, idx, refi, responses,
                   cmp_output, scoring_logs, comparison_logs, cache, raised,
                   challenge_live, started, torn_down, score_requests,
                   setup_outcome, last_similarity, last_response>>

\* setup_miner_container without the removal by port.
setup_miner_container_noremove ==
    /\ pc = "setup_miner"
    /\ IF ~is_image_digest_format_valid(ImageOf(cur))
       THEN /\ exc' = "Invalid image format"
            /\ pc' = "except"
       ELSE /\ pc' = "setup_run"
            /\ UNCHANGED exc
    /\ UNCHANGED <<services, config, challenge_inputs, attempt, pos, idx, refi, responses,
                   cmp_output, scoring_logs, comparison_logs, cache, raised,
                   challenge_live, started, torn_down, score_requests,
                   setup_outcome, last_similarity, last_response, miner_live, removed_by_port>>

\* Controller._setup_miner_container, first half: the digest check, then the
\* removal of whatever is bound to the miner port.
setup_miner_container ==
    /\ pc = "setup_miner"
    /\ IF ~is_image_digest_format_valid(ImageOf(cur))
       THEN /\ exc' = "Invalid image format"
            /\ pc' = "except"
            /\ UNCHANGED <<miner_live, removed_by_port>>
       ELSE /\ remove_container_by_port
            /\ pc' = "setup_run"
            /\ UNCHANGED exc
    /\ UNCHANGED <<services, config, challenge_inputs, attempt, pos, idx, refi, responses,
                   cmp_output, scoring_logs, comparison_logs, cache, raised,
                   challenge_live, started, torn_down, score_requests,
                   setup_outcome, last_similarity, last_response>>

\* Controller._setup_miner_container, second half: run_container on the miner
\* port, then check_container_alive.
run_miner_container ==
    /\ pc = "setup_run"
    /\ \E outcome \in {"ok", "run failed", "not alive"} :
         /\ IF outcome = "run failed"
            THEN UNCHANGED <<miner_live, started>>
            ELSE /\ miner_live' = miner_live \cup {cur}
                 /\ started' = started \cup {cur}
         /\ IF outcome = "ok"
            THEN /\ pc' = WorkPc
                 /\ idx' = 1
                 /\ UNCHANGED exc
            ELSE /\ pc' = "except"
                 /\ exc' = outcome
                 /\ UNCHANGED idx
    /\ UNCHANGED <<services, config, challenge_inputs, attempt, pos, refi, responses, cmp_output,
                   scoring_logs, comparison_logs, cache, raised, challenge_live,
                   removed_by_port, torn_down, score_requests,
                   setup_outcome, last_similarity, last_response>>

\* The log the except clause of the miner loop appends.
FailureLog(e) == ScoringLog(None, None, 0, e)

\* except_clause re-raising what it caught.
except_clause_reraise ==
    /\ pc = "except"
    /\ Propagate(exc)
    /\ UNCHANGED <<services, config, challenge_inputs, attempt, pos, idx, refi, responses,
                   cmp_output, scoring_logs, comparison_logs, cache, exc,
                   challenge_live, miner_live, started, removed_by_port, torn_down,
                   score_requests, setup_outcome, last_similarity, last_response>>

\* except_clause around the whole miner loop: a failure ends the loop.
except_clause_break ==
    /\ pc = "except"
    /\ IF KindOf(cur) = "miner"
       THEN /\ scoring_logs' = [scoring_logs EXCEPT ![cur] = Append(@, FailureLog(exc))]
            /\ Goto(Len(RunOrder) + 1)
       ELSE /\ Goto(pos + 1)
            /\ UNCHANGED scoring_logs
    /\ UNCHANGED <<services, config, challenge_inputs, attempt, idx, refi, responses, cmp_output,
                   comparison_logs, cache, raised, challenge_live, miner_live, started,
                   removed_by_port, torn_down, score_requests,
                   setup_outcome, last_similarity, last_response>>

\* except_clause that only logs the error.
except_clause_nolog ==
    /\ pc = "except"
    /\ IF KindOf(cur) = "miner"
       THEN /\ pc' = "cleanup"
            /\ UNCHANGED <<pos, exc>>
       ELSE Goto(pos + 1)
    /\ UNCHANGED <<services, config, challenge_inputs, attempt, idx, refi, responses, cmp_output,
                   scoring_logs, comparison_logs, cache, raised, challenge_live,
                   miner_live, started, removed_by_port, torn_down, score_requests,
                   setup_outcome, last_similarity, last_response>>

\* The except clauses of start_challenge: the miner loop appends a failure log
\* unless the uid is the baseline's and goes on to the clean-up after the try
\* block; the baseline's and the fixed references' only log the error.
except_clause ==
    /\ pc = "except"
    /\ IF KindOf(cur) = "miner"
       THEN /\ scoring_logs' =
                 IF CommitOf(cur).miner_uid # BaselineUid
                 THEN [scoring_logs EXCEPT ![cur] = Append(@, FailureLog(exc))]
                 ELSE scoring_logs
            /\ pc' = "cleanup"
            /\ UNCHANGED <<pos, exc>>
       ELSE /\ Goto(pos + 1)
            /\ UNCHANGED scoring_logs
    /\ UNCHANGED <<services, config, challenge_inputs, attempt, idx, refi, responses, cmp_output,
                   comparison_logs, cache, raised, challenge_live, miner_live, started,
                   removed_by_port, torn_down, score_requests,
                   setup_outcome, last_similarity, last_response>>

\* The commit a fixed reference leaves in the class cache.
CachedCommit(key) ==
    [miner_uid |-> CommitOf(key).miner_uid, miner_hotkey |-> CommitOf(key).miner_hotkey,
     docker_hub_id |-> ImageOf(key), scoring_logs |-> scoring_logs[key]]

\* The end of the try block of the baseline and of a fixed reference:
\* remove_container_by_port, clean_docker_resources, and for a fixed reference
\* the store into _baseline_reference_cache.
cleanup_in_try ==
    /\ pc = "cleanup_in_try"
    /\ remove_container_by_port
    /\ cache' = IF KindOf(cur) = "fixed"
                THEN [id \in DOMAIN cache \cup {ImageOf(cur)} |->
                         IF id = ImageOf(cur) THEN CachedCommit(cur) ELSE cache[id]]
                ELSE cache
    /\ Goto(pos + 1)
    /\ UNCHANGED <<services, config, challenge_inputs, attempt, idx, refi, responses, cmp_output,
                   scoring_logs, comparison_logs, raised, challenge_live, started,
                   torn_down, score_requests,
                   setup_outcome, last_similarity, last_response>>

\* The clean-up after the try block of the miner loop.
cleanup_miner ==
    /\ pc = "cleanup"
    /\ remove_container_by_port
    /\ torn_down' = torn_down \cup {cur[2]}
    /\ Goto(pos + 1)
    /\ UNCHANGED <<services, config, challenge_inputs, attempt, idx, refi, responses, cmp_output,
                   scoring_logs, comparison_logs, cache, raised, challenge_live,
                   started, score_requests,
                   setup_outcome, last_similarity, last_response>>

\* The end of start_challenge: remove_container of the challenge container.
teardown_challenge ==
    /\ pc = "teardown"
    /\ challenge_live' = FALSE
    /\ pc' = "done"
    /\ UNCHANGED <<services, config, challenge_inputs, attempt, pos, idx, refi, responses,
                   cmp_output, scoring_logs, comparison_logs, cache, exc, raised,
                   miner_live, started, removed_by_port, torn_down, score_requests,
                   setup_outcome, last_similarity, last_response>>

\* ------------------------------------------------- solve and score requests
SolveOutcomes == {"ok"} \cup SolveErrors

\* Controller._submit_challenge_to_miner: <<miner_output, error_message>>.
submit_challenge_to_miner(key, in, outcome) ==
    IF outcome = "ok" THEN <<Some(Output(key, in)), "">> ELSE <<None, outcome>>

\* The zero score for every answer of the score endpoint.
score_challenge_zero(resp) == 0

\* Controller._score_challenge: the answer coerced to a float, 0.0 by default.
score_challenge(resp) == IF resp.kind = "num" THEN resp.val ELSE 0

\* AdjustToBaseline with the baseline's first log for every task.
AdjustToBaseline_first(logs, log, i) ==
    IF HasBaseline /\ Len(logs[BaselineKey]) >= i
    THEN [log EXCEPT !.score = log.score - logs[BaselineKey][1].score,
                     !.baseline_score = Some(logs[BaselineKey][1].score)]
    ELSE log

\* The baseline adjustment of _score_miner_with_new_inputs for task i (from 1).
AdjustToBaseline(logs, log, i) ==
    IF HasBaseline /\ Len(logs[BaselineKey]) >= i
    THEN [log EXCEPT !.score = log.score - logs[BaselineKey][i].score,
                     !.baseline_score = Some(logs[BaselineKey][i].score)]
    ELSE log

\* The log is dropped when the solve gave no output.
StoreLog_outputs_only(logs, key, log, i) ==
    IF log.miner_output = None THEN logs
    ELSE IF CommitOf(key).miner_hotkey = BaselineHotkey
    THEN [logs EXCEPT ![BaselineKey] = Append(@, log)]
    ELSE [logs EXCEPT ![key] = Append(@, AdjustToBaseline(logs, log, i))]

\* Where _score_miner_with_new_inputs stores the log of task i.
StoreLog(logs, key, log, i) ==
    IF CommitOf(key).miner_hotkey = BaselineHotkey
    THEN [logs EXCEPT ![BaselineKey] = Append(@, log)]
    ELSE [logs EXCEPT ![key] = Append(@, AdjustToBaseline(logs, log, i))]

\* The statement after _score_miner_with_new_inputs in base and rqa.
AfterScorePc == IF KindOf(cur) = "baseline" THEN "cleanup_in_try" ELSE "compare"

\* The body of the loop of Controller._score_miner_with_new_inputs for the solve
\* outcome and the answer of the score endpoint given. The raw field of the log
\* records the number the score endpoint answered, 0 when it was not asked or
\* answered no number.
score_task(outcome, resp) ==
    LET in == challenge_inputs[idx]
        res == submit_challenge_to_miner(cur, in, outcome)
        score == IF res[1] # None THEN score_challenge(resp) ELSE 0
        log == [ScoringLog(Some(in), res[1], score, res[2]) EXCEPT
                  !.raw = IF res[1] # None /\ resp.kind = "num"
                          THEN resp.val ELSE 0]
    IN /\ scoring_logs' = StoreLog(scoring_logs, cur, log, idx)
       /\ score_requests' = score_requests + (IF res[1] # None THEN 1 ELSE 0)

\* One iteration of Controller._score_miner_with_new_inputs.
score_miner_with_new_inputs ==
    /\ pc = "score"
    /\ idx <= Len(challenge_inputs)
    /\ \E outcome \in SolveOutcomes, resp \in ScoreResponses :
         score_task(outcome, resp)
    /\ idx' = idx + 1
    /\ UNCHANGED <<services, config, challenge_inputs, attempt, pc, pos, refi, responses,
                   cmp_output, comparison_logs, cache, exc, raised, challenge_live,
                   miner_live, started, removed_by_port, torn_down,
                   setup_outcome, last_similarity, last_response>>

\* _score_miner_with_new_inputs returns.
score_done ==
    /\ pc = "score"
    /\ idx > Len(challenge_inputs)
    /\ pc' = AfterScorePc
    /\ idx' = 1
    /\ refi' = 1
    /\ UNCHANGED <<services, config, challenge_inputs, attempt, pos, responses, cmp_output,
                   scoring_logs, comparison_logs, cache, exc, raised, challenge_live,
                   miner_live, started, removed_by_port, torn_down, score_requests,
                   setup_outcome, last_similarity, last_response>>

\* ------------------------------------------- ResponseQualityAdversarialController
\* Step 1 of its _score_miner_with_new_inputs: one solve request.
rqa_solve ==
    /\ pc = "rqa_solve"
    /\ idx <= Len(challenge_inputs)
    /\ \E outcome \in SolveOutcomes :
         LET in == challenge_inputs[idx]
             res == submit_challenge_to_miner(cur, in, outcome)
         IN responses' = Append(responses, <<in, res[1], res[2]>>)
    /\ idx' = idx + 1
    /\ UNCHANGED <<services, config, challenge_inputs, attempt, pc, pos, refi, cmp_output,
                   scoring_logs, comparison_logs, cache, exc, raised, challenge_live,
                   miner_live, started, removed_by_port, torn_down, score_requests,
                   setup_outcome, last_similarity, last_response>>

\* The responses that have an output, in order: score_tasks.
ScoreTasks(resps) == SelectSeq(resps, LAMBDA r : r[2] # None)

\* Step 3: the logs, with score_index walking the list of scores.
RECURSIVE rqa_store(_, _, _, _, _, _)
rqa_store(logs, key, resps, scores, i, score_index) ==
    IF i > Len(resps) THEN logs
    ELSE LET r == resps[i]
             score == IF r[2] # None /\ score_index <= Len(scores)
                      THEN scores[score_index] ELSE 0
         IN rqa_store(StoreLog(logs, key, ScoringLog(Some(r[1]), r[2], score, r[3]), i),
                      key, resps, scores, i + 1,
                      IF r[2] # None THEN score_index + 1 ELSE score_index)

\* The scores in the order in which the requests completed.
gather_as_completed(order, done) == done

\* asyncio.gather of _score_challenges_async: done[k] is the result of the k-th
\* request to complete, which is the request of task order[k]; the list returned
\* has the result of task j at position j.
gather(order, done) ==
    [j \in 1..Len(done) |-> done[CHOOSE k \in 1..Len(done) : order[k] = j]]

\* Steps 2 and 3: the score requests run concurrently and complete in any order,
\* then the logs are made. The raw field of a log of a scored task is set to
\* what the challenge answered for that very task.
rqa_score ==
    /\ pc = "rqa_solve"
    /\ idx > Len(challenge_inputs)
    /\ \E resps \in [1..Len(ScoreTasks(responses)) -> ScoreResponses],
          order \in {p \in [1..Len(ScoreTasks(responses)) ->
                               1..Len(ScoreTasks(responses))] :
                        \A a, b \in DOMAIN p : p[a] = p[b] => a = b} :
         LET done == [k \in 1..Len(order) |-> score_challenge(resps[order[k]])]
             stored == rqa_store(scoring_logs, cur, responses, gather(order, done),
                                 1, 1)
             before == Len(scoring_logs[cur])
             task(i) == Cardinality({j \in 1..i : responses[j][2] # None})
         IN scoring_logs' =
               [stored EXCEPT ![cur] =
                   [i \in 1..Len(@) |->
                       IF i > before /\ @[i].miner_output # None
                       THEN [@[i] EXCEPT
                               !.raw = score_challenge(resps[task(i - before)])]
                       ELSE @[i]]]
    /\ score_requests' = score_requests + Len(ScoreTasks(responses))
    /\ responses' = <<>>
    /\ pc' = AfterScorePc
    /\ idx' = 1
    /\ refi' = 1
    /\ UNCHANGED <<services, config, challenge_inputs, attempt, pos, cmp_output, comparison_logs,
                   cache, exc, raised, challenge_live, miner_live, started,
                   removed_by_port, torn_down,
                   setup_outcome, last_similarity, last_response>>

\* ------------------------------------------------------ reference comparison
\* The answers of POST /compare: a JSON number ("num"), a JSON boolean ("bool",
\* val 1 for true), a string or null or no similarity_score at all ("bad"), or
\* no readable answer ("error": transport error, timeout, a body that is not
\* JSON or whose "data" is not an object). A run of start_challenge draws from
\* the numbers, "bad" and "error".
CompareResponses ==
    [kind : {"num"}, val : SimVals]
    \cup {[kind |-> "bad", val |-> 0], [kind |-> "error", val |-> 0]}

\* Controller._compare_outputs: the similarity of the answer. A float is kept,
\* an int is converted with float(), and a bool is an int for isinstance, so
\* true is 1.0 and false is 0.0; anything else is 1.0; 0.0 when the request
\* raised.
compare_outputs(resp) ==
    CASE resp.kind = "num" -> resp.val
      [] resp.kind = "bool" -> 100 * resp.val
      [] resp.kind = "bad" -> 100
      [] OTHER -> 0

\* ABSController._compare_outputs: the same, clamped to [0, 1].
abs_compare_outputs(resp) ==
    LET s == compare_outputs(resp)
    IN IF s < 0 THEN 0 ELSE IF s > 100 THEN 100 ELSE s

\* Every commit of this run that has scoring logs, the miner's own included.
get_current_commits_to_compare_all(key) ==
    LET peers == SelectSeq([j \in 1..Len(miner_commits) |-> j],
                           LAMBDA j : scoring_logs[MinerKey(j)] # <<>>)
    IN [n \in 1..Len(peers) |->
          [miner_uid |-> miner_commits[peers[n]].miner_uid,
           miner_hotkey |-> miner_commits[peers[n]].miner_hotkey,
           docker_hub_id |-> miner_commits[peers[n]].docker_hub_id,
           scoring_logs |-> scoring_logs[MinerKey(peers[n])]]]

\* Controller._get_current_commits_to_compare: the commits of this run that have
\* scoring logs and another uid.
get_current_commits_to_compare(key) ==
    LET peers == SelectSeq([j \in 1..Len(miner_commits) |-> j],
                           LAMBDA j : /\ scoring_logs[MinerKey(j)] # <<>>
                                      /\ miner_commits[j].miner_uid # CommitOf(key).miner_uid)
    IN [n \in 1..Len(peers) |->
          [miner_uid |-> miner_commits[peers[n]].miner_uid,
           miner_hotkey |-> miner_commits[peers[n]].miner_hotkey,
           docker_hub_id |-> miner_commits[peers[n]].docker_hub_id,
           scoring_logs |-> scoring_logs[MinerKey(peers[n])]]]

\* The values of _baseline_reference_cache, in insertion order.
RECURSIVE CacheValues(_)
CacheValues(ids) ==
    IF ids = {} THEN <<>>
    ELSE LET first == CHOOSE id \in ids : \A o \in ids : id.repo[2] <= o.repo[2]
         IN <<cache[first]>> \o CacheValues(ids \ {first})

StripPenalty(c) ==
    [miner_uid |-> c.miner_uid, miner_hotkey |-> c.miner_hotkey,
     docker_hub_id |-> c.docker_hub_id, scoring_logs |-> c.scoring_logs]

\* Controller._get_all_reference_commits (hb adds the class cache), and the list
\* ABSController._run_reference_comparison_inputs builds.
get_all_reference_commits ==
    [j \in 1..Len(reference_comparison_commits) |->
        StripPenalty(reference_comparison_commits[j])]
    \o (IF IsGating THEN CacheValues(DOMAIN cache) ELSE <<>>)

\* The reference commits the current miner is compared with.
ReferenceList ==
    IF variant = "abs" THEN get_all_reference_commits
    ELSE get_all_reference_commits \o get_current_commits_to_compare(cur)

\* SkipSelfComparison with the test turned round.
SkipSelfComparison_high(minerHotkey, refHotkey, sim) ==
    minerHotkey = refHotkey /\ sim >= max_self_comparison_score

\* The self-comparison test of Controller._run_reference_comparison_inputs:
\* TRUE when the comparison is skipped.
SkipSelfComparison(minerHotkey, refHotkey, sim) ==
    minerHotkey = refHotkey /\ sim < max_self_comparison_score

\* comparison_logs[id] = [] if id is not a key.
EnsureKey(cl, id) ==
    IF id \in DOMAIN cl THEN cl ELSE [x \in DOMAIN cl \cup {id} |-> IF x = id THEN <<>> ELSE cl[x]]
\* comparison_logs[id] = [].
ResetKey(cl, id) == [x \in DOMAIN cl \cup {id} |-> IF x = id THEN <<>> ELSE cl[x]]
\* del comparison_logs[id] if it is an empty list.
PruneKey(cl, id) ==
    IF id \in DOMAIN cl /\ cl[id] = <<>> THEN [x \in DOMAIN cl \ {id} |-> cl[x]] ELSE cl

\* Controller._run_reference_comparison_inputs: one reference log.
run_reference_comparison_inputs ==
    /\ pc = "compare"
    /\ refi <= Len(ReferenceList)
    /\ idx <= Len(ReferenceList[refi].scoring_logs)
    /\ LET ref == ReferenceList[refi]
           rlog == ref.scoring_logs[idx]
           m == cur[2]
           cl == EnsureKey(comparison_logs[m], ref.docker_hub_id)
       IN IF \/ rlog.miner_input = None
             \/ rlog.miner_output = None
             \/ scoring_logs[cur] = <<>>
             \/ scoring_logs[cur][1].miner_output = None
          THEN /\ comparison_logs' = [comparison_logs EXCEPT ![m] = cl]
               /\ UNCHANGED <<last_similarity, last_response>>
          ELSE \E resp \in CompareResponses :
                 LET sim == compare_outputs(resp)
                 IN /\ last_similarity' = Some(sim)
                    /\ UNCHANGED last_response
                    /\ comparison_logs' =
                         [comparison_logs EXCEPT ![m] =
                            IF SkipSelfComparison(CommitOf(cur).miner_hotkey,
                                                  ref.miner_hotkey, sim)
                            THEN cl
                            ELSE [cl EXCEPT ![ref.docker_hub_id] =
                                    Append(@, ComparisonLog(rlog.miner_input[1],
                                                            ref.miner_hotkey, sim))]]
    /\ idx' = idx + 1
    /\ UNCHANGED <<services, config, challenge_inputs, attempt, pc, pos, refi, responses,
                   cmp_output, scoring_logs, cache, exc, raised, challenge_live,
                   miner_live, started, removed_by_port, torn_down, score_requests,
                   setup_outcome>>

\* The end of the loop over one reference's logs: an empty list is removed.
next_reference ==
    /\ pc \in {"compare", "abs_compare"}
    /\ refi <= Len(ReferenceList)
    /\ idx > Len(ReferenceList[refi].scoring_logs)
    /\ LET id == ReferenceList[refi].docker_hub_id
           m == cur[2]
           cl == IF pc = "compare" THEN EnsureKey(comparison_logs[m], id)
                 ELSE IF idx = 1 THEN ResetKey(comparison_logs[m], id)
                 ELSE comparison_logs[m]
       IN comparison_logs' = [comparison_logs EXCEPT ![m] = PruneKey(cl, id)]
    /\ refi' = refi + 1
    /\ idx' = 1
    /\ UNCHANGED <<services, config, challenge_inputs, attempt, pc, pos, responses, cmp_output,
                   scoring_logs, cache, exc, raised, challenge_live, miner_live,
                   started, removed_by_port, torn_down, score_requests,
                   setup_outcome, last_similarity, last_response>>

\* The comparison returns: base and rqa leave the try block, abs goes on to score.
comparison_done ==
    /\ pc \in {"compare", "abs_compare"}
    /\ refi > Len(ReferenceList)
    /\ pc' = IF pc = "compare" THEN "cleanup" ELSE "gate_score"
    /\ idx' = 1
    /\ UNCHANGED <<services, config, challenge_inputs, attempt, pos, refi, responses, cmp_output,
                   scoring_logs, comparison_logs, cache, exc, raised, challenge_live,
                   miner_live, started, removed_by_port, torn_down, score_requests,
                   setup_outcome, last_similarity, last_response>>

\* ------------------------------------------------------------- HBController
\* The error _generate_scoring_logs stores for a failed solve.
NotAccepted(err) ==
    IF err = "" THEN "[Not Accepted] No output from miner"
    ELSE "[Not Accepted] Timeout occurred while trying to solve challenge."

\* One iteration of Controller._generate_scoring_logs: the log is inserted at
\* the head of scoring_logs.
generate_scoring_logs ==
    /\ pc = "gen_logs"
    /\ idx <= Len(challenge_inputs)
    /\ \E outcome \in SolveOutcomes :
         LET in == challenge_inputs[idx]
             res == submit_challenge_to_miner(cur, in, outcome)
             log == IF res[1] = None \/ res[2] # ""
                    THEN ScoringLog(Some(in), None, 0, NotAccepted(res[2]))
                    ELSE ScoringLog(Some(in), res[1], 0, res[2])
         IN scoring_logs' = [scoring_logs EXCEPT ![cur] = <<log>> \o @]
    /\ idx' = idx + 1
    /\ UNCHANGED <<services, config, challenge_inputs, attempt, pc, pos, refi, responses,
                   cmp_output, comparison_logs, cache, exc, raised, challenge_live,
                   miner_live, started, removed_by_port, torn_down, score_requests,
                   setup_outcome, last_similarity, last_response>>

\* _generate_scoring_logs returns. For a miner HBController.start_challenge then
\* calls self._run_reference_comparison_inputs(miner_commit, challenge_inputs);
\* HBController inherits Controller._run_reference_comparison_inputs(self,
\* miner_commit), so the call raises TypeError.
generate_scoring_logs_done ==
    /\ pc = "gen_logs"
    /\ idx > Len(challenge_inputs)
    /\ IF KindOf(cur) = "fixed"
       THEN /\ pc' = "cleanup_in_try"
            /\ UNCHANGED exc
       ELSE /\ pc' = "except"
            /\ exc' = "TypeError: takes 2 positional arguments but 3 were given"
    /\ idx' = 1
    /\ UNCHANGED <<services, config, challenge_inputs, attempt, pos, refi, responses, cmp_output,
                   scoring_logs, comparison_logs, cache, raised, challenge_live,
                   miner_live, started, removed_by_port, torn_down, score_requests,
                   setup_outcome, last_similarity, last_response>>

\* ------------------------------------------------------------ ABSController
\* One iteration of ABSController._get_reference_outputs; miner_output["log_time"]
\* raises TypeError when the solve gave no output.
get_reference_outputs ==
    /\ pc = "ref_outputs"
    /\ idx <= Len(challenge_inputs)
    /\ \E outcome \in SolveOutcomes :
         LET in == challenge_inputs[idx]
             res == submit_challenge_to_miner(cur, in, outcome)
         IN IF res[1] = None
            THEN /\ pc' = "except"
                 /\ exc' = "TypeError: 'NoneType' object does not support item assignment"
                 /\ UNCHANGED <<scoring_logs, idx>>
            ELSE /\ scoring_logs' =
                      StoreLog(scoring_logs, cur, ScoringLog(Some(in), res[1], 0, res[2]), idx)
                 /\ idx' = idx + 1
                 /\ UNCHANGED <<pc, exc>>
    /\ UNCHANGED <<services, config, challenge_inputs, attempt, pos, refi, responses, cmp_output,
                   comparison_logs, cache, raised, challenge_live, miner_live, started,
                   removed_by_port, torn_down, score_requests,
                   setup_outcome, last_similarity, last_response>>

get_reference_outputs_done ==
    /\ pc = "ref_outputs"
    /\ idx > Len(challenge_inputs)
    /\ pc' = "cleanup_in_try"
    /\ UNCHANGED <<services, config, challenge_inputs, attempt, pos, idx, refi, responses,
                   cmp_output, scoring_logs, comparison_logs, cache, exc, raised,
                   challenge_live, miner_live, started, removed_by_port, torn_down,
                   score_requests,
                   setup_outcome, last_similarity, last_response>>

\* ABSController._run_reference_comparison_inputs, up to its loop: the solve of
\* challenge_inputs[0] (IndexError on an empty list) and the log inserted at the
\* head of scoring_logs.
abs_reference_solve ==
    /\ pc = "abs_solve"
    /\ IF challenge_inputs = <<>>
       THEN /\ pc' = "except"
            /\ exc' = "IndexError: list index out of range"
            /\ UNCHANGED <<scoring_logs, cmp_output, refi, idx>>
       ELSE \E outcome \in SolveOutcomes :
              LET in == challenge_inputs[1]
                  res == submit_challenge_to_miner(cur, in, outcome)
                  failed == res[1] = None \/ res[2] # ""
              IN /\ scoring_logs' =
                      [scoring_logs EXCEPT ![cur] =
                         <<ScoringLog(Some(in), IF failed THEN None ELSE res[1], 0, res[2])>> \o @]
                 /\ cmp_output' = res[1]
                 /\ pc' = IF failed THEN "gate_score" ELSE "abs_compare"
                 /\ refi' = 1
                 /\ idx' = 1
                 /\ UNCHANGED exc
    /\ UNCHANGED <<services, config, challenge_inputs, attempt, pos, responses, comparison_logs,
                   cache, raised, challenge_live, miner_live, started, removed_by_port,
                   torn_down, score_requests,
                   setup_outcome, last_similarity, last_response>>

\* The loop body of ABSController._run_reference_comparison_inputs: one
\* reference log; the reference's list is emptied when its loop starts.
abs_run_reference_comparison_inputs ==
    /\ pc = "abs_compare"
    /\ refi <= Len(ReferenceList)
    /\ idx <= Len(ReferenceList[refi].scoring_logs)
    /\ LET ref == ReferenceList[refi]
           rlog == ref.scoring_logs[idx]
           m == cur[2]
           cl == IF idx = 1 THEN ResetKey(comparison_logs[m], ref.docker_hub_id)
                 ELSE comparison_logs[m]
       IN IF rlog.miner_input = None \/ rlog.miner_output = None
          THEN /\ comparison_logs' = [comparison_logs EXCEPT ![m] = cl]
               /\ UNCHANGED <<last_similarity, last_response>>
          ELSE \E resp \in CompareResponses :
                 /\ last_similarity' = Some(abs_compare_outputs(resp))
                 /\ UNCHANGED last_response
                 /\ comparison_logs' =
                      [comparison_logs EXCEPT ![m] =
                         [cl EXCEPT ![ref.docker_hub_id] =
                            Append(@, ComparisonLog(rlog.miner_input[1], ref.miner_hotkey,
                                                    abs_compare_outputs(resp)))]]
    /\ idx' = idx + 1
    /\ UNCHANGED <<services, config, challenge_inputs, attempt, pc, pos, refi, responses,
                   cmp_output, scoring_logs, cache, exc, raised, challenge_live,
                   miner_live, started, removed_by_port, torn_down, score_requests,
                   setup_outcome>>

\* MinerChallengeCommit.get_higest_comparison_score: the highest similarity of
\* the commit's comparison logs, 0.0 when it has none.
RECURSIVE MaxOf(_)
MaxOf(S) == IF S = {} THEN 0
            ELSE LET x == CHOOSE y \in S : TRUE
                     rest == MaxOf(S \ {x})
                 IN IF x > rest THEN x ELSE rest
get_higest_comparison_score(cl) ==
    MaxOf(UNION {{cl[id][n].similarity_score : n \in 1..Len(cl[id])} : id \in DOMAIN cl})

\* SkipScoring with > for >=.
SkipScoring_strict(highest) == highest > HighComparisonScore \/ highest = 0

\* The test of HBController/ABSController._score_miner_with_new_inputs that
\* skips the scoring of a task.
SkipScoring(highest) == highest >= HighComparisonScore \/ highest = 0

NotAcceptedHigh == "[Not Accepted]High comparison score, skipping scoring"

\* One iteration of ABSController._score_miner_with_new_inputs (HBController's
\* is the same code): the result goes to scoring_logs[0].
gated_score_miner_with_new_inputs ==
    /\ pc = "gate_score"
    /\ idx <= Len(challenge_inputs)
    /\ LET highest == get_higest_comparison_score(comparison_logs[cur[2]])
           head == scoring_logs[cur][1]
       IN IF SkipScoring(highest)
          THEN /\ scoring_logs' =
                    [scoring_logs EXCEPT ![cur][1].score = 0,
                                         ![cur][1].error = NotAcceptedHigh]
               /\ UNCHANGED score_requests
          ELSE IF head.miner_output # None
          THEN /\ \E resp \in ScoreResponses :
                    scoring_logs' =
                       [scoring_logs EXCEPT ![cur][1].score = score_challenge(resp),
                                            ![cur][1].raw = score_challenge(resp)]
               /\ score_requests' = score_requests + 1
          ELSE /\ scoring_logs' = [scoring_logs EXCEPT ![cur][1].score = 0]
               /\ UNCHANGED score_requests
    /\ idx' = idx + 1
    /\ UNCHANGED <<services, config, challenge_inputs, attempt, pc, pos, refi, responses,
                   cmp_output, comparison_logs, cache, exc, raised, challenge_live,
                   miner_live, started, removed_by_port, torn_down,
                   setup_outcome, last_similarity, last_response>>

gated_score_done ==
    /\ pc = "gate_score"
    /\ idx > Len(challenge_inputs)
    /\ pc' = "cleanup"
    /\ UNCHANGED <<services, config, challenge_inputs, attempt, pos, idx, refi, responses,
                   cmp_output, scoring_logs, comparison_logs, cache, exc, raised,
                   challenge_live, miner_live, started, removed_by_port, torn_down,
                   score_requests,
                   setup_outcome, last_similarity, last_response>>

Next ==
    \/ setup_challenge
    \/ get_challenge_from_container
    \/ start_scoring
    \/ setup_miner_container
    \/ run_miner_container
    \/ except_clause
    \/ cleanup_in_try
    \/ cleanup_miner
    \/ teardown_challenge
    \/ score_miner_with_new_inputs
    \/ score_done
    \/ rqa_solve
    \/ rqa_score
    \/ run_reference_comparison_inputs
    \/ next_reference
    \/ comparison_done
    \/ generate_scoring_logs
    \/ generate_scoring_logs_done
    \/ get_reference_outputs
    \/ get_reference_outputs_done
    \/ abs_reference_solve
    \/ abs_run_reference_comparison_inputs
    \/ gated_score_miner_with_new_inputs
    \/ gated_score_done

Spec == Init /\ [][Next]_vars

\* ------------------------------------------------------------------- claims
Range(seq) == {seq[n] : n \in 1..Len(seq)}
MinerIndices == 1..Len(miner_commits)
ChallengeSetupErrors == {"build failed", "run failed", "not alive"}
Finished == pc \in {"done", "raised"}

\* C1, as stated: whatever fails, no exception leaves start_challenge().
C1_NoExceptionEscapes == raised = ""

\* C1, amended: the only exceptions that leave start_challenge() are those of
\* the challenge setup and of the task fetch, raised before any commit is set
\* up; once the commits are being processed nothing escapes, and a miner whose
\* processing raised has a failure log carrying the error as its last log.
C1_OnlySetupAndTaskFailuresEscape ==
    /\ raised # "" =>
          /\ pc = "raised"
          /\ pos = 0
          /\ raised \in ChallengeSetupErrors \cup {"Failed to get challenge"}
    /\ pos >= 1 => pc # "raised"
    /\ (pc = "cleanup" /\ exc # "") =>
          /\ scoring_logs[cur] # <<>>
          /\ scoring_logs[cur][Len(scoring_logs[cur])] = FailureLog(exc)

\* C1: a run returned although a miner's sandbox did not come up and a solve failed.
C1_Witness ==
    /\ pc = "done"
    /\ raised = ""
    /\ \E k \in MinerIndices : FailureLog("not alive") \in Range(scoring_logs[MinerKey(k)])
    /\ \E k \in MinerIndices : \E log \in Range(scoring_logs[MinerKey(k)]) :
          log.miner_input # None /\ log.miner_output = None

\* C2: when start_challenge() has finished, by returning or by raising, neither
\* the challenge container nor any container on the miner port is left.
C2_ContainersRemovedAtExit ==
    Finished => ~challenge_live /\ miner_live = {}

\* C3: a failure while a miner is processed does not abort the run: while miner
\* k is processed exactly the miners before it have been torn down, nothing of
\* them is left on the miner port, the except clause and the cleanup after it
\* can always be taken, and the run ends with every miner torn down and the
\* challenge container removed.
C3_MinerFailureDoesNotAbortRun ==
    /\ (pos >= 1 /\ pos <= Len(RunOrder) /\ KindOf(cur) = "miner") =>
          torn_down = 1..(cur[2] - 1)
    /\ \A k \in torn_down : MinerKey(k) \notin miner_live
    /\ pos >= 1 => raised = ""
    /\ pc \in {"teardown", "done"} => torn_down = MinerIndices
    /\ pc = "done" => ~challenge_live
    /\ pc = "except" => ENABLED except_clause
    /\ pc = "cleanup" => ENABLED (cleanup_in_try \/ cleanup_miner)

\* C3: the first miner failed, the second was set up and scored afterwards.
C3_Witness ==
    /\ pc = "done"
    /\ Len(miner_commits) >= 2
    /\ \E log \in Range(scoring_logs[MinerKey(1)]) : log.miner_input = None
    /\ MinerKey(2) \in started
    /\ \E log \in Range(scoring_logs[MinerKey(2)]) : log.miner_output # None
    /\ torn_down = {1, 2}

\* C4, as stated: on return every miner commit has at least one scoring log.
C4_EveryMinerHasALog ==
    pc = "done" => \A k \in MinerIndices : scoring_logs[MinerKey(k)] # <<>>

\* C4, amended: on return every miner commit has at least one scoring log,
\* provided the challenge input list is not empty.
C4_EveryMinerHasALogIfInputs ==
    (pc = "done" /\ challenge_inputs # <<>>) =>
        \A k \in MinerIndices : scoring_logs[MinerKey(k)] # <<>>

\* C4: a run with inputs returned; one miner has a failure log, one the logs of
\* its tasks.
C4_Witness ==
    /\ pc = "done"
    /\ challenge_inputs # <<>>
    /\ \E k \in MinerIndices :
          \E log \in Range(scoring_logs[MinerKey(k)]) : log.miner_input = None
    /\ \E k \in MinerIndices :
          \A log \in Range(scoring_logs[MinerKey(k)]) : log.miner_input # None

\* C5: when _setup_challenge fails (build, run or liveness check) the failure
\* leaves start_challenge(), no container is ever started on the miner port and
\* no commit gets a scoring or comparison log.
C5_ChallengeSetupFailureIsFatal ==
    setup_outcome \in ChallengeSetupErrors =>
        /\ pc = "raised"
        /\ raised = setup_outcome
        /\ started = {}
        /\ miner_live = {}
        /\ \A key \in AllKeys : scoring_logs[key] = <<>>
        /\ \A k \in MinerIndices : comparison_logs[k] = EmptyMap

\* C5: the liveness check of the challenge container failed in a run with miners.
C5_Witness ==
    /\ setup_outcome = "not alive"
    /\ pc = "raised"
    /\ miner_commits # <<>>

\* C6: no container is ever started for an image reference that is not a digest
\* reference, and the setup of such a commit goes straight to the except clause
\* with an error: nothing is removed by port and nothing is run.
C6_InvalidDigestRejectedFirst ==
    /\ [](\A key \in started : is_image_digest_format_valid(ImageOf(key)))
    /\ [][(pc = "setup_miner" /\ ~is_image_digest_format_valid(ImageOf(cur))) =>
             /\ pc' = "except"
             /\ exc' # ""
             /\ removed_by_port' = removed_by_port
             /\ miner_live' = miner_live
             /\ started' = started]_vars

\* C6: a miner's tag reference was rejected while the container of the baseline,
\* which had failed its liveness check, was still bound to the miner port.
C6_Witness ==
    /\ pc = "except"
    /\ exc = "Invalid image format"
    /\ KindOf(cur) = "miner"
    /\ miner_live = {BaselineKey}

\* C7: at most one container is bound to the miner port.
C7_OneContainerOnMinerPort == Cardinality(miner_live) <= 1

\* C7: a miner's container runs, started after the baseline's container had been
\* left behind by a failed liveness check.
C7_Witness ==
    /\ miner_live = {MinerKey(1)}
    /\ BaselineKey \in started
    /\ challenge_inputs # <<>>
    /\ scoring_logs[BaselineKey] = <<>>

\* C8: in base and rqa, log i of a miner holds the raw score minus the score of
\* the baseline's log i, and that score as baseline_score, when the baseline has
\* a log i; otherwise the raw score and no baseline_score; the baseline's own
\* logs hold the raw score and no baseline_score.
C8_BaselineRelativeScore ==
    variant \in {"base", "rqa"} =>
        /\ \A i \in 1..Len(scoring_logs[BaselineKey]) :
              LET log == scoring_logs[BaselineKey][i]
              IN log.score = log.raw /\ log.baseline_score = None
        /\ \A k \in MinerIndices : \A i \in 1..Len(scoring_logs[MinerKey(k)]) :
              LET log == scoring_logs[MinerKey(k)][i]
                  base == scoring_logs[BaselineKey]
              IN log.miner_input # None =>
                    IF HasBaseline /\ i <= Len(base)
                    THEN /\ log.score = log.raw - base[i].score
                         /\ log.baseline_score = Some(base[i].score)
                    ELSE /\ log.score = log.raw
                         /\ log.baseline_score = None

\* C8: the second task of a miner scored 0.0 against a baseline that scored 0.9
\* on it and 0.0 on the first task.
C8_Witness ==
    /\ Len(scoring_logs[BaselineKey]) >= 2
    /\ scoring_logs[BaselineKey][1].score = 0
    /\ \E k \in MinerIndices :
          /\ Len(scoring_logs[MinerKey(k)]) >= 2
          /\ scoring_logs[MinerKey(k)][2].raw = 0
          /\ scoring_logs[MinerKey(k)][2].score = -90
          /\ scoring_logs[MinerKey(k)][2].baseline_score = Some(90)

\* C9: in the gating controllers, a task that is about to be scored while the
\* miner's highest similarity is at least 0.6 or exactly 0.0 gets no score
\* request and leaves score 0.0 and the 'Not Accepted' error in the log;
\* otherwise one score request is sent and its answer is the stored score.
C9_HighOrZeroSimilarityIsNotScored ==
    [][(pc = "gate_score" /\ idx <= Len(challenge_inputs)) =>
          LET highest == get_higest_comparison_score(comparison_logs[cur[2]])
          IN IF highest >= HighComparisonScore \/ highest = 0
             THEN /\ score_requests' = score_requests
                  /\ scoring_logs'[cur][1].score = 0
                  /\ scoring_logs'[cur][1].error = NotAcceptedHigh
             ELSE /\ score_requests' = score_requests + 1
                  /\ scoring_logs'[cur][1].score = scoring_logs'[cur][1].raw
                  /\ scoring_logs'[cur][1].error = scoring_logs[cur][1].error]_vars

\* C9: a miner whose highest similarity is exactly 0.6 was refused.
C9_Witness ==
    /\ pc = "gate_score"
    /\ idx > 1
    /\ get_higest_comparison_score(comparison_logs[cur[2]]) = HighComparisonScore
    /\ scoring_logs[cur][1].miner_output # None
    /\ scoring_logs[cur][1].error = NotAcceptedHigh
    /\ score_requests = 0

\* A step of Controller._run_reference_comparison_inputs that sends a compare
\* request.
CompareRequestStep ==
    /\ pc = "compare"
    /\ refi <= Len(ReferenceList)
    /\ idx <= Len(ReferenceList[refi].scoring_logs)
    /\ ReferenceList[refi].scoring_logs[idx].miner_input # None
    /\ ReferenceList[refi].scoring_logs[idx].miner_output # None
    /\ scoring_logs[cur] # <<>>
    /\ scoring_logs[cur][1].miner_output # None
Kept(cl, id) == IF id \in DOMAIN cl THEN Len(cl[id]) ELSE 0

call_compare_outputs ==
    \E resp \in [kind : {"num"}, val : (0 - 20)..140]
                    \cup [kind : {"bool"}, val : {0, 1}]
                    \cup {[kind |-> "bad", val |-> 0], [kind |-> "error", val |-> 0]},
       clamped \in BOOLEAN :
       /\ last_response' = Some(resp)
       /\ last_similarity' = Some(IF clamped THEN abs_compare_outputs(resp)
                                            ELSE compare_outputs(resp))
       /\ UNCHANGED <<config, challenge_inputs, attempt, pc, pos, idx, refi,
                      responses, cmp_output, scoring_logs, comparison_logs, cache,
                      exc, raised, challenge_live, miner_live, started,
                      removed_by_port, torn_down, score_requests, setup_outcome,
                      services>>

InitCompare == NoChallengeRun /\ NoScoringCache /\ NoMinerManager

SpecCompare == InitCompare /\ [][call_compare_outputs]_vars

\* C11: every compare request that fails gives similarity 0.0, and every answer
\* whose similarity_score is missing or not a number gives 1.0, in the base
\* Controller and in ABSController.
C11_CompareDefaults ==
    last_response # None =>
        /\ last_response[1].kind = "error" => last_similarity[1] = 0
        /\ last_response[1].kind \in {"bad", "bool"} => last_similarity[1] = 100

\* C12: every similarity_score stored in a comparison log lies in [0, 1].
C12_StoredSimilarityInUnitInterval ==
    \A k \in MinerIndices : \A id \in DOMAIN comparison_logs[k] :
       \A log \in Range(comparison_logs[k][id]) :
          log.similarity_score >= 0 /\ log.similarity_score <= 100

\* ============================================== services/rewarding/cache.py
Challenges == {"a", "b"}
CacheKeys == 1..(MaxCacheSize + 1)
DockerHubIds == 1..(MaxPerChallenge + 1)
\* Scoring results: a non-empty dict, and the empty dict {}, which is falsy.
ScoringResults == {"result", "empty"}
Truthy(v) == v = "result"

\* LRUCache.__init__.
NewLRUCache == [cache |-> <<>>, evictions |-> 0]
KeysOf(c) == {c.cache[i].key : i \in 1..Len(c.cache)}
ValueOf(c, k) == (CHOOSE e \in Range(c.cache) : e.key = k).value
\* OrderedDict.pop(key).
Without(items, k) == SelectSeq(items, LAMBDA e : e.key # k)

\* LRUCache.get without the move to the end.
LRUCache_get_norefresh(c, k) ==
    IF k \notin KeysOf(c) THEN [c |-> c, value |-> None]
    ELSE [c |-> c, value |-> Some(ValueOf(c, k))]

\* LRUCache.get: the value (None when absent); a present key moves to the end.
LRUCache_get(c, k) ==
    IF k \notin KeysOf(c) THEN [c |-> c, value |-> None]
    ELSE [c |-> [c EXCEPT !.cache = Append(Without(@, k),
                                           [key |-> k, value |-> ValueOf(c, k)])],
          value |-> Some(ValueOf(c, k))]

\* LRUCache.set that looks at the size before it pops the key.
LRUCache_set_size_first(c, maxsize, k, v) ==
    IF Len(c.cache) >= maxsize /\ c.cache # <<>>
    THEN [c |-> [cache |-> Append(Without(Tail(c.cache), k), [key |-> k, value |-> v]),
                 evictions |-> c.evictions + 1],
          error |-> ""]
    ELSE [c |-> [c EXCEPT !.cache = Append(Without(@, k), [key |-> k, value |-> v])],
          error |-> ""]

\* LRUCache.set that never evicts.
LRUCache_set_unbounded(c, maxsize, k, v) ==
    [c |-> [c EXCEPT !.cache = Append(Without(@, k), [key |-> k, value |-> v])],
     error |-> ""]

\* LRUCache.set: the key is popped, the first item is evicted when the cache is
\* full (popitem raises KeyError on an empty dict), the key is added at the end.
LRUCache_set(c, maxsize, k, v) ==
    LET popped == Without(c.cache, k)
    IN IF Len(popped) >= maxsize
       THEN IF popped = <<>>
            THEN [c |-> [c EXCEPT !.cache = popped], error |-> "KeyError"]
            ELSE [c |-> [cache |-> Append(Tail(popped), [key |-> k, value |-> v]),
                         evictions |-> c.evictions + 1],
                  error |-> ""]
       ELSE [c |-> [c EXCEPT !.cache = Append(popped, [key |-> k, value |-> v])],
             error |-> ""]

\* self.caches[challenge] = LRUCache(...) if the challenge has no cache.
WithCache(cs, ch) == IF ch \in DOMAIN cs THEN cs ELSE cs @@ (ch :> NewLRUCache)

\* Bookkeeping of a ScoringLRUCache call: the call counters and the call itself.
Called(op, ch, k, result, error) ==
    /\ n_calls < MaxCalls
    /\ n_calls' = n_calls + 1
    /\ n_gets' = IF op = "get" THEN n_gets + 1 ELSE n_gets
    /\ last_call' = Some([op |-> op, challenge |-> ch, key |-> k,
                          result |-> result, error |-> error])
    /\ UNCHANGED last_access

\* ScoringLRUCache.get.
ScoringLRUCache_get(ch, k) ==
    /\ IF ch \notin DOMAIN caches
       THEN /\ misses' = misses + 1
            /\ caches' = caches
            /\ hits' = hits
            /\ Called("get", ch, k, None, "")
       ELSE LET r == LRUCache_get(caches[ch], k)
            IN /\ caches' = [caches EXCEPT ![ch] = r.c]
               /\ IF r.value # None /\ Truthy(r.value[1])
                  THEN hits' = hits + 1 /\ misses' = misses
                  ELSE misses' = misses + 1 /\ hits' = hits
               /\ Called("get", ch, k, r.value, "")
    /\ UNCHANGED <<controllerVars, managerVars, instances, rerun, updater, submission, provider, threads, maxsize_per_challenge>>

\* ScoringLRUCache.set.
ScoringLRUCache_set(ch, k, v) ==
    /\ LET cs == WithCache(caches, ch)
           r == LRUCache_set(cs[ch], maxsize_per_challenge, k, v)
       IN /\ caches' = [cs EXCEPT ![ch] = r.c]
          /\ Called("set", ch, k, None, r.error)
    /\ UNCHANGED <<controllerVars, managerVars, instances, rerun, updater, submission, provider, threads, maxsize_per_challenge, hits, misses>>

\* ScoringLRUCache.setdefault.
ScoringLRUCache_setdefault(ch, k, default) ==
    /\ LET cs == WithCache(caches, ch)
           g == LRUCache_get(cs[ch], k)
           r == LRUCache_set(g.c, maxsize_per_challenge, k, default)
       IN IF g.value = None
          THEN /\ caches' = [cs EXCEPT ![ch] = r.c]
               /\ Called("setdefault", ch, k, Some(default), r.error)
          ELSE /\ caches' = [cs EXCEPT ![ch] = g.c]
               /\ Called("setdefault", ch, k, g.value, "")
    /\ UNCHANGED <<controllerVars, managerVars, instances, rerun, updater, submission, provider, threads, maxsize_per_challenge, hits, misses>>

\* ScoringLRUCache.remove.
ScoringLRUCache_remove(ch, k) ==
    /\ IF ch \in DOMAIN caches /\ k \in KeysOf(caches[ch])
       THEN /\ caches' = [caches EXCEPT ![ch].cache = Without(@, k)]
            /\ Called("remove", ch, k, Some(TRUE), "")
       ELSE /\ caches' = caches
            /\ Called("remove", ch, k, Some(FALSE), "")
    /\ UNCHANGED <<controllerVars, managerVars, instances, rerun, updater, submission, provider, threads, maxsize_per_challenge, hits, misses>>

\* ScoringLRUCache.clear_challenge.
ScoringLRUCache_clear_challenge(ch) ==
    /\ caches' = IF ch \in DOMAIN caches THEN [caches EXCEPT ![ch].cache = <<>>]
                 ELSE caches
    /\ Called("clear_challenge", ch, 0, None, "")
    /\ UNCHANGED <<controllerVars, managerVars, instances, rerun, updater, submission, provider, threads, maxsize_per_challenge, hits, misses>>

\* ScoringLRUCache.clear_all.
ScoringLRUCache_clear_all ==
    /\ caches' = [ch \in DOMAIN caches |-> [caches[ch] EXCEPT !.cache = <<>>]]
    /\ Called("clear_all", "", 0, None, "")
    /\ UNCHANGED <<controllerVars, managerVars, instances, rerun, updater, submission, provider, threads, maxsize_per_challenge, hits, misses>>

\* ScoringLRUCache.__init__(challenges, maxsize_per_challenge).
InitCache ==
    /\ NoChallengeRun
    /\ NoMinerManager
    /\ maxsize_per_challenge \in 0..MaxPerChallenge
    /\ \E chs \in SUBSET Challenges : caches = [ch \in chs |-> NewLRUCache]
    /\ hits = 0
    /\ misses = 0
    /\ n_calls = 0
    /\ n_gets = 0
    /\ last_access = EmptyMap
    /\ last_call = None
    /\ threads = <<>>

NextCache ==
    \/ \E ch \in Challenges, k \in DockerHubIds : ScoringLRUCache_get(ch, k)
    \/ \E ch \in Challenges, k \in DockerHubIds, v \in ScoringResults :
          ScoringLRUCache_set(ch, k, v)
    \/ \E ch \in Challenges, k \in DockerHubIds, v \in ScoringResults :
          ScoringLRUCache_setdefault(ch, k, v)
    \/ \E ch \in Challenges, k \in DockerHubIds : ScoringLRUCache_remove(ch, k)
    \/ \E ch \in Challenges : ScoringLRUCache_clear_challenge(ch)
    \/ ScoringLRUCache_clear_all

SpecCache == InitCache /\ [][NextCache]_vars

\* ------------------------------------------------------- a single LRUCache
\* The cache is caches["a"]; last_access[k] is the number of the latest get or
\* set call on key k, 0 when there was none.
\* Bookkeeping of an LRUCache call.
CalledLRU(op, k, result, error) ==
    /\ n_calls < MaxLRUCalls
    /\ n_calls' = n_calls + 1
    /\ last_call' = Some([op |-> op, challenge |-> "a", key |-> k,
                          result |-> result, error |-> error])
    /\ last_access' = [last_access EXCEPT ![k] = n_calls + 1]
    /\ UNCHANGED <<controllerVars, managerVars, instances, rerun, updater, submission, provider, threads, maxsize_per_challenge, hits, misses, n_gets>>

\* A call of LRUCache.get.
lru_get(k) ==
    LET r == LRUCache_get(caches["a"], k)
    IN /\ caches' = [caches EXCEPT !["a"] = r.c]
       /\ CalledLRU("get", k, r.value, "")

\* A call of LRUCache.set.
lru_set(k, v) ==
    LET r == LRUCache_set(caches["a"], maxsize_per_challenge, k, v)
    IN /\ caches' = [caches EXCEPT !["a"] = r.c]
       /\ CalledLRU("set", k, None, r.error)

\* LRUCache.__init__(maxsize).
InitLRU ==
    /\ NoChallengeRun
    /\ NoMinerManager
    /\ maxsize_per_challenge \in 0..MaxCacheSize
    /\ caches = [ch \in {"a"} |-> NewLRUCache]
    /\ hits = 0
    /\ misses = 0
    /\ n_calls = 0
    /\ n_gets = 0
    /\ last_access = [k \in CacheKeys |-> 0]
    /\ last_call = None
    /\ threads = <<>>

NextLRU ==
    \/ \E k \in CacheKeys : lru_get(k)
    \/ \E k \in CacheKeys : lru_set(k, "result")

SpecLRU == InitLRU /\ [][NextLRU]_vars

\* C13: in an LRUCache with maxsize >= 1, a set of a key that is not in a full
\* cache evicts exactly one key, the one whose latest get or set is the oldest,
\* and adds 1 to the eviction counter; every other call evicts nothing.
C13_SetEvictsLeastRecentlyUsed ==
    [][maxsize_per_challenge >= 1 =>
         LET c == caches["a"]
             d == caches'["a"]
             call == last_call'[1]
         IN IF /\ call.op = "set"
               /\ call.key \notin KeysOf(c)
               /\ Len(c.cache) = maxsize_per_challenge
            THEN /\ \E victim \in KeysOf(c) :
                       /\ \A o \in KeysOf(c) : last_access[victim] <= last_access[o]
                       /\ KeysOf(d) = (KeysOf(c) \ {victim}) \cup {call.key}
                 /\ Len(d.cache) = maxsize_per_challenge
                 /\ d.evictions = c.evictions + 1
            ELSE /\ d.evictions = c.evictions
                 /\ KeysOf(c) \subseteq KeysOf(d)]_vars

\* C13: keys 1 and 2 were set, key 1 was read, then the set of key 3 evicted
\* key 2 and not the first inserted key 1.
C13_Witness ==
    /\ maxsize_per_challenge = 2
    /\ last_call # None
    /\ last_call[1].op = "set"
    /\ last_call[1].key = 3
    /\ caches["a"].evictions = 1
    /\ KeysOf(caches["a"]) = {1, 3}
    /\ last_access[1] > last_access[2]
    /\ last_access[2] > 0

\* C14: every per-challenge cache of a ScoringLRUCache holds at most
\* maxsize_per_challenge entries, and a call on one challenge leaves the cache of
\* every other challenge (entries, order, eviction count) as it was.
C14_BoundedAndIsolated ==
    /\ [](\A ch \in DOMAIN caches : Len(caches[ch].cache) <= maxsize_per_challenge)
    /\ [][last_call'[1].op # "clear_all" =>
            \A other \in DOMAIN caches \ {last_call'[1].challenge} :
               other \in DOMAIN caches' /\ caches'[other] = caches[other]]_vars

\* C14: challenge a's cache is full and has evicted an entry while challenge b's
\* cache still holds its entry.
C14_Witness ==
    /\ maxsize_per_challenge = 1
    /\ DOMAIN caches = {"a", "b"}
    /\ caches["a"].evictions = 1
    /\ Len(caches["a"].cache) = 1
    /\ Len(caches["b"].cache) = 1
    /\ caches["b"].evictions = 0

\* C15: every ScoringLRUCache.get adds 1 to hits when the entry is in the cache
\* and 1 to misses when the entry or the challenge is absent, and leaves the other
\* counter alone; no other call changes hits or misses; hits + misses is the
\* number of get calls.
C15_GetCountsHitOrMiss ==
    /\ [](hits + misses = n_gets)
    /\ [][LET call == last_call'[1]
          IN IF call.op # "get"
             THEN hits' = hits /\ misses' = misses
             ELSE IF /\ call.challenge \in DOMAIN caches
                     /\ call.key \in KeysOf(caches[call.challenge])
                  THEN hits' = hits + 1 /\ misses' = misses
                  ELSE misses' = misses + 1 /\ hits' = hits]_vars

\* ------------------------------ redteam_core/validator/miner_manager.py
\* Scores are whole numbers of tenths; a result is a vector of numerators num
\* over one denominator den, so that identity u holds num[u] / den.
ignore_ip == "0.0.0.0"

RECURSIVE SumSeq(_)
SumSeq(s) == IF s = <<>> THEN 0 ELSE Head(s) + SumSeq(Tail(s))

\* Step 1 of exclude_same_miner: the uids of non-zero score grouped by ip, the
\* groups in the order of their first uid, the group of ignore_ip deleted.
ip_groups(axons, sc) ==
    LET Scored(u) == sc[u] # 0
        uids == SelectSeq([u \in 1..Len(axons) |-> u], Scored)
        First(u) == /\ axons[u].ip # ignore_ip
                    /\ \A v \in 1..(u - 1) : sc[v] # 0 => axons[v].ip # axons[u].ip
        firsts == SelectSeq(uids, First)
    IN [g \in 1..Len(firsts) |->
          LET SameIp(u) == axons[u].ip = axons[firsts[g]].ip
          IN SelectSeq(uids, SameIp)]

\* The loop over ip_groups.items() from group g on. miner_info[c + 1] is the
\* "index" list of _miner_info["miner_<c>"]; the first group is stored under
\* miner_0 without counting it; a later group is appended to every miner it
\* shares a coldkey with, and is otherwise stored under miner_<count>.
RECURSIVE merge_groups(_, _, _, _, _)
merge_groups(axons, groups, g, miner_info, count) ==
    IF g > Len(groups) THEN miner_info
    ELSE LET info == groups[g]
             coldkey(index) == {axons[index[i]].coldkey : i \in 1..Len(index)}
             same == {m \in 1..Len(miner_info) :
                         coldkey(info) \cap coldkey(miner_info[m]) # {}}
         IN IF g = 1
            THEN merge_groups(axons, groups, 2, <<info>>, count)
            ELSE IF same # {}
            THEN merge_groups(axons, groups, g + 1,
                     [m \in 1..Len(miner_info) |->
                         IF m \in same THEN miner_info[m] \o info
                                       ELSE miner_info[m]],
                     count)
            ELSE merge_groups(axons, groups, g + 1,
                     IF count + 1 <= Len(miner_info)
                     THEN [miner_info EXCEPT ![count + 1] = info]
                     ELSE Append(miner_info, info),
                     count + 1)

exclude_same_miner(axons, sc) ==
    LET groups == ip_groups(axons, sc)
        miners == merge_groups(axons, groups, 1, <<>>, 0)
        maximum_score_uid(index) ==
            index[CHOOSE i \in 1..Len(index) :
                     /\ \A j \in 1..Len(index) : sc[index[j]] <= sc[index[i]]
                     /\ \A j \in 1..(i - 1) : sc[index[j]] < sc[index[i]]]
        final_scores ==
            [u \in 1..Len(axons) |->
                IF \E m \in 1..Len(miners) : maximum_score_uid(miners[m]) = u
                THEN sc[u] ELSE 0]
    IN IF SumSeq(sc) = 0 THEN [num |-> sc, den |-> 1]
       ELSE IF groups = <<>> THEN [num |-> [u \in 1..Len(axons) |-> 0], den |-> 1]
       ELSE [num |-> final_scores, den |-> SumSeq(final_scores)]

call_exclude_same_miner ==
    /\ returned = None
    /\ Len(input_scores) = Len(metagraph)
    /\ returned' = Some([op |-> "exclude_same_miner",
                         value |-> exclude_same_miner(metagraph, input_scores)])
    /\ UNCHANGED <<controllerVars, cacheVars, instances, rerun, updater, submission, provider, metagraph, input_scores,
                   active_challenges>>

InitSybil ==
    /\ NoChallengeRun
    /\ NoScoringCache
    /\ \E n \in 0..MaxUids :
         /\ metagraph \in [1..n -> [ip : {ignore_ip, "10.0.0.1", "10.0.0.2",
                                          "10.0.0.3"},
                                    coldkey : {"ckX", "ckY", "ckZ"}]]
         /\ input_scores \in [1..n -> {0, 3, 8}]
    /\ active_challenges = <<>>
    /\ returned = None

SpecSybil == InitSybil /\ [][call_exclude_same_miner]_vars

\* C16: when the scores do not sum to zero, among the identities that share one
\* network address exactly one, a highest-scoring one, keeps a non-zero score and
\* the others get exactly 0, and the returned vector sums to 1. Stated here for
\* the addresses whose identities share no coldkey with any identity elsewhere,
\* the placeholder address left out.
C16_OneIdentityPerAddressKeepsScore ==
    (/\ returned # None
     /\ returned[1].op = "exclude_same_miner"
     /\ SumSeq(input_scores) # 0) =>
        LET out == returned[1].value
            uids == 1..Len(metagraph)
            at(ip) == {u \in uids : metagraph[u].ip = ip}
            apart(ip) == \A u \in at(ip), v \in uids \ at(ip) :
                            metagraph[u].coldkey # metagraph[v].coldkey
        IN /\ \A ip \in {metagraph[u].ip : u \in uids} \ {ignore_ip} :
                (apart(ip) /\ \E u \in at(ip) : input_scores[u] # 0) =>
                    \E u \in at(ip) :
                        /\ out.num[u] # 0
                        /\ \A v \in at(ip) : input_scores[v] <= input_scores[u]
                        /\ \A v \in at(ip) \ {u} : out.num[v] = 0
           /\ (\E u \in uids : input_scores[u] # 0 /\ metagraph[u].ip # ignore_ip)
                 => SumSeq(out.num) = out.den

\* C17: an identity of positive score that shares neither its address nor its
\* coldkey with any other identity keeps a non-zero score, its score divided by
\* the sum of the kept scores, however many groups there are and in whatever
\* order they are visited (the placeholder address left out).
C17_UnrelatedIdentityKeepsItsShare ==
    (/\ returned # None
     /\ returned[1].op = "exclude_same_miner"
     /\ SumSeq(input_scores) # 0) =>
        LET out == returned[1].value
            uids == 1..Len(metagraph)
        IN \A u \in uids :
              (/\ input_scores[u] > 0
               /\ metagraph[u].ip # ignore_ip
               /\ \A v \in uids \ {u} : /\ metagraph[v].ip # metagraph[u].ip
                                        /\ metagraph[v].coldkey # metagraph[u].coldkey)
              => /\ out.num[u] = input_scores[u]
                 /\ out.den = SumSeq(out.num)

\* C18: the address groups that share a coldkey, directly or through other
\* groups, form one merged group, and among all the identities of a merged group
\* exactly one keeps a non-zero score, in every visiting order.
C18_MergedGroupKeepsOneScore ==
    (/\ returned # None
     /\ returned[1].op = "exclude_same_miner"
     /\ SumSeq(input_scores) # 0) =>
        LET out == returned[1].value
            live == {u \in 1..Len(metagraph) :
                        input_scores[u] # 0 /\ metagraph[u].ip # ignore_ip}
            linked(u, v) == \/ metagraph[u].ip = metagraph[v].ip
                            \/ metagraph[u].coldkey = metagraph[v].coldkey
            grow(S) == S \cup {v \in live : \E u \in S : linked(u, v)}
            merged(u) == grow(grow(grow(grow({u}))))
        IN \A u \in live :
              Cardinality({v \in merged(u) : out.num[v] # 0}) = 1

\* --------------------------------------------- the aggregation of challenges
\* A weight that takes no share of the weights to redistribute.
adjusted_weight_unshared(w, valid_weights_sum, weights_to_redistribute) ==
    IF valid_weights_sum > 0 THEN w * valid_weights_sum ELSE w

\* adjusted_weight of a valid challenge of weight w, as the numerator over the
\* denominator valid_weights_sum (over 1 when valid_weights_sum is 0).
adjusted_weight(w, valid_weights_sum, weights_to_redistribute) ==
    IF valid_weights_sum > 0
    THEN w * valid_weights_sum + weights_to_redistribute * w
    ELSE w

\* MinerManager._get_challenge_scores. A manager whose get_challenge_scores
\* raises ends the call with that exception. aggregated_scores is the sum over
\* the valid challenges i of
\*   normalized[i].num * adjusted[i] / (normalized[i].den * den).
get_challenge_scores(managers, axons) ==
    LET IsValid(c) == SumSeq(managers[c].scores) # 0
        valid_challenges == SelectSeq([c \in 1..Len(managers) |-> c], IsValid)
        weight(i) == managers[valid_challenges[i]].weight
        valid_weights_sum ==
            SumSeq([i \in 1..Len(valid_challenges) |-> weight(i)])
        weights_to_redistribute ==
            SumSeq([c \in 1..Len(managers) |-> managers[c].weight])
               - valid_weights_sum
    IN IF \E c \in 1..Len(managers) : managers[c].raises
       THEN [raised |-> TRUE]
       ELSE [raised |-> FALSE,
             valid_challenges |-> valid_challenges,
             den |-> IF valid_weights_sum > 0 THEN valid_weights_sum ELSE 1,
             adjusted |-> [i \in 1..Len(valid_challenges) |->
                              adjusted_weight(weight(i), valid_weights_sum,
                                              weights_to_redistribute)],
             normalized |-> [i \in 1..Len(valid_challenges) |->
                                exclude_same_miner(axons,
                                    managers[valid_challenges[i]].scores)]]

\* MinerManager.get_onchain_scores; owner is the uid of metagraph.owner_hotkey,
\* 0 when it is not among metagraph.hotkeys. final_scores is
\*   challenge_scores * CHALLENGE_SCORES_WEIGHT
\*      + alpha_burn_scores * alpha_burn_weight.
get_onchain_scores(managers, axons, owner) ==
    LET challenge_scores == get_challenge_scores(managers, axons)
        sum == SumSeq([i \in 1..Len(challenge_scores.normalized) |->
                          SumSeq(challenge_scores.normalized[i].num)
                             * challenge_scores.adjusted[i]])
    IN IF challenge_scores.raised
       THEN [raised |-> TRUE]
       ELSE [raised |-> FALSE,
             challenge_scores |-> challenge_scores,
             alpha_burn_scores |->
                 [u \in 1..Len(axons) |-> IF u = owner THEN 1 ELSE 0],
             alpha_burn_weight |->
                 IF sum <= 0 THEN ALPHA_BURN_WEIGHT + CHALLENGE_SCORES_WEIGHT
                             ELSE ALPHA_BURN_WEIGHT]

call_get_challenge_scores ==
    /\ returned = None
    /\ returned' = Some([op |-> "_get_challenge_scores",
                         value |-> get_challenge_scores(active_challenges,
                                                        metagraph)])
    /\ UNCHANGED <<controllerVars, cacheVars, instances, rerun, updater, submission, provider, metagraph, input_scores,
                   active_challenges>>

call_get_onchain_scores ==
    /\ returned = None
    /\ \E owner \in 0..Len(metagraph) :
         returned' = Some([op |-> "get_onchain_scores",
                           value |-> get_onchain_scores(active_challenges,
                                                        metagraph, owner)])
    /\ UNCHANGED <<controllerVars, cacheVars, instances, rerun, updater, submission, provider, metagraph, input_scores,
                   active_challenges>>

InitAggregate ==
    /\ NoChallengeRun
    /\ NoScoringCache
    /\ metagraph \in [1..2 -> [ip : {ignore_ip, "10.0.0.1", "10.0.0.2"},
                               coldkey : {"ckX"}]]
    /\ input_scores = <<>>
    /\ \E n \in 0..MaxManagers :
         active_challenges \in
            [1..n -> [weight : 0..MaxWeight,
                      scores : {<<0, 0>>, <<5, 0>>, <<3, 5>>},
                      raises : BOOLEAN]]
    /\ returned = None

NextAggregate == call_get_challenge_scores \/ call_get_onchain_scores

SpecAggregate == InitAggregate /\ [][NextAggregate]_vars

\* C19 as stated: the adjusted weights of the challenges of non-zero vector sum
\* to the total configured weight of all challenges, and with a challenge A of
\* zero vector and a challenge B of non-zero vector B's adjusted weight is its
\* own weight plus all of A's.
C19_AdjustedWeightsSumToTotal ==
    (/\ returned # None
     /\ returned[1].op = "_get_challenge_scores"
     /\ ~returned[1].value.raised) =>
        LET out == returned[1].value
            total == SumSeq([c \in 1..Len(active_challenges) |->
                                active_challenges[c].weight])
        IN SumSeq(out.adjusted) = total * out.den

\* C19: when the challenges of non-zero vector have a configured weight above
\* zero in total, their adjusted weights are in proportion to their configured
\* weights and sum to the total configured weight of all challenges; with a
\* challenge A of zero vector and a challenge B of non-zero vector, B's adjusted
\* weight is its own weight plus all of A's. When that total is zero, every
\* adjusted weight is the configured weight.
C19_RedistributionAmongValidChallenges ==
    (/\ returned # None
     /\ returned[1].op = "_get_challenge_scores"
     /\ ~returned[1].value.raised) =>
        LET out == returned[1].value
            valid == out.valid_challenges
            weight(i) == active_challenges[valid[i]].weight
            total == SumSeq([c \in 1..Len(active_challenges) |->
                                active_challenges[c].weight])
            valid_total == SumSeq([i \in 1..Len(valid) |-> weight(i)])
        IN /\ \A c \in 1..Len(active_challenges) :
                 (\E i \in 1..Len(valid) : valid[i] = c)
                    <=> SumSeq(active_challenges[c].scores) # 0
           /\ IF valid_total > 0
              THEN /\ SumSeq(out.adjusted) = total * out.den
                   /\ \A i, j \in 1..Len(valid) :
                         out.adjusted[i] * weight(j) = out.adjusted[j] * weight(i)
                   /\ (Len(active_challenges) = 2 /\ Len(valid) = 1) =>
                         out.adjusted[1] = total * out.den
              ELSE \A i \in 1..Len(valid) :
                      out.adjusted[i] = weight(i) * out.den

\* C19: challenge A of weight 1 has a zero vector, challenge B of weight 2 has a
\* non-zero one, and B's adjusted weight is 3.
C19_Witness ==
    /\ returned # None
    /\ returned[1].op = "_get_challenge_scores"
    /\ Len(active_challenges) = 2
    /\ active_challenges[1].weight = 1
    /\ active_challenges[1].scores = <<0, 0>>
    /\ active_challenges[2].weight = 2
    /\ active_challenges[2].scores = <<3, 5>>
    /\ ~returned[1].value.raised
    /\ returned[1].value.valid_challenges = <<2>>
    /\ returned[1].value.adjusted[1] = 3 * returned[1].value.den

\* C20: when a challenge manager's get_challenge_scores raises, or returns no
\* scores, the challenge counts as a zero vector whose weight is redistributed,
\* and _get_challenge_scores and get_onchain_scores still return a result.
C20_ProviderFailureDoesNotAbort ==
    (/\ returned # None
     /\ returned[1].op \in {"_get_challenge_scores", "get_onchain_scores"}) =>
        ~returned[1].value.raised

\* C21: with configured challenge weights that sum to 1 (the weights read in
\* units of their total), get_onchain_scores returns one entry per identity,
\* every entry in [0, 1], the entries summing to CHALLENGE_SCORES_WEIGHT +
\* ALPHA_BURN_WEIGHT; when no challenge has scores the whole sum is the owner's.
\* Entries are compared over the common denominator D * W, D the product of the
\* denominators of the weights and of the normalized vectors, W the total weight.
C21_OnchainScoresSumToOne ==
    (/\ returned # None
     /\ returned[1].op = "get_onchain_scores"
     /\ ~returned[1].value.raised
     /\ SumSeq([c \in 1..Len(active_challenges) |->
                  active_challenges[c].weight]) > 0) =>
        LET out == returned[1].value
            cs == out.challenge_scores
            uids == 1..Len(metagraph)
            W == SumSeq([c \in 1..Len(active_challenges) |->
                            active_challenges[c].weight])
            dens == [i \in 1..Len(cs.normalized) |-> cs.normalized[i].den]
            prod[i \in 0..Len(dens)] == IF i = 0 THEN 1 ELSE dens[i] * prod[i - 1]
            D == cs.den * prod[Len(dens)]
            challenge(u) ==
                SumSeq([i \in 1..Len(cs.normalized) |->
                           cs.adjusted[i] * cs.normalized[i].num[u]
                              * (prod[Len(dens)] \div dens[i])])
            final(u) == CHALLENGE_SCORES_WEIGHT * challenge(u)
                           + out.alpha_burn_weight * out.alpha_burn_scores[u] * D * W
            whole == (CHALLENGE_SCORES_WEIGHT + ALPHA_BURN_WEIGHT) * D * W
        IN /\ Len(out.alpha_burn_scores) = Len(metagraph)
           /\ \A u \in uids : final(u) >= 0 /\ final(u) <= whole
           /\ SumSeq([u \in uids |-> final(u)]) = whole
           /\ (\A c \in 1..Len(active_challenges) :
                  SumSeq(active_challenges[c].scores) = 0)
                => \E u \in uids : final(u) = whole

\* =========================================== scoring logs and challenge inputs
\* The runs of the controllers that score with Controller's loop or with the rqa
\* controller's gathered requests: the base Controller and the
\* ResponseQualityAdversarialController.
InitScoring == Init /\ variant \in {"base", "rqa"}

NextScoring ==
    \/ setup_challenge
    \/ get_challenge_from_container
    \/ start_scoring
    \/ setup_miner_container
    \/ run_miner_container
    \/ except_clause
    \/ cleanup_in_try
    \/ cleanup_miner
    \/ teardown_challenge
    \/ score_miner_with_new_inputs
    \/ score_done
    \/ rqa_solve
    \/ rqa_score
    \/ run_reference_comparison_inputs
    \/ next_reference
    \/ comparison_done

SpecScoring == InitScoring /\ [][NextScoring]_vars

C23_GatedLogsFollowInputs ==
    IsGating =>
        \A key \in Range(RunOrder) :
           LET logs == scoring_logs[key]
               tasks == {i \in 1..Len(logs) : logs[i].miner_input # None}
           IN (Len(challenge_inputs) >= 1 /\ tasks = 1..Len(challenge_inputs)) =>
                 \A i \in tasks :
                    /\ logs[i].miner_input = Some(challenge_inputs[i])
                    /\ logs[i].miner_output
                          \in {None, Some(Output(key, challenge_inputs[i]))}
                    /\ logs[i].score = logs[i].raw

\* ================================= the class-level cache of fixed references
\* HBController.__init__ / ABSController.__init__ with up to two fixed reference
\* images configured: the images to score are chosen against the class cache as
\* it is now.
new_controller ==
    /\ Len(instances) < MaxInstances
    /\ \E m \in 0..2 :
         instances' =
            Append(instances,
                   [to_score |->
                       FixedToScore([j \in 1..m |->
                                        Image(<<"fixed", j>>,
                                              [sep |-> "@sha256:",
                                               hexlen |-> DigestHexLen])],
                                    cache),
                    at |-> 1])
    /\ UNCHANGED <<config, challenge_inputs, attempt, pc, pos, idx, refi, responses,
                   cmp_output, scoring_logs, comparison_logs, cache, exc, raised,
                   challenge_live, miner_live, started, removed_by_port, torn_down,
                   score_requests, setup_outcome, last_similarity, last_response,
                   cacheVars, managerVars, rerun, updater, submission, provider>>

\* One iteration of the loop of start_challenge over
\* baseline_reference_comparison_commits_to_score, in a controller whose run
\* does not overlap another's: the container does not start, or starts and
\* fails, or the commit is scored and stored in the class cache, with scoring
\* logs or, when there are no challenge inputs, without.
run_reference ==
    \E n \in 1..Len(instances) :
       /\ instances[n].at <= Len(instances[n].to_score)
       /\ \A o \in 1..Len(instances) \ {n} :
             instances[o].at = 1 \/ instances[o].at > Len(instances[o].to_score)
       /\ \E outcome \in {"not started", "failed", "scored", "no logs"} :
            LET id == instances[n].to_score[instances[n].at].docker_hub_id
            IN /\ rerun' = IF /\ outcome # "not started"
                              /\ id \in DOMAIN cache
                              /\ cache[id].scoring_logs # <<>>
                           THEN rerun \cup {id} ELSE rerun
               /\ cache' =
                    IF outcome \in {"scored", "no logs"}
                    THEN [i \in DOMAIN cache \cup {id} |->
                            IF i = id
                            THEN [docker_hub_id |-> id,
                                  scoring_logs |-> IF outcome = "scored"
                                                   THEN <<"log">> ELSE <<>>]
                            ELSE cache[i]]
                    ELSE cache
       /\ instances' = [instances EXCEPT ![n].at = @ + 1]
       /\ UNCHANGED <<config, challenge_inputs, attempt, pc, pos, idx, refi,
                      responses, cmp_output, scoring_logs, comparison_logs, exc,
                      raised, challenge_live, miner_live, started, removed_by_port,
                      torn_down, score_requests, setup_outcome, last_similarity,
                      last_response, cacheVars, managerVars, updater, submission, provider>>

InitFamily == NoChallengeRun /\ NoScoringCache /\ NoMinerManager

NextFamily == new_controller \/ run_reference

SpecFamily == InitFamily /\ [][NextFamily]_vars

\* C24: a controller never starts a container for a fixed reference image that
\* the class-level cache already holds with scoring logs, also when the
\* controller was created before the run that scored the image.
C24_ScoredReferenceNotRunAgain == rerun = {}

\* ================================== two threads on one LRUCache, no lock
\* The cache is caches["a"]. A thread begins a call of ScoringLRUCache.get, .set
\* or .setdefault on it.
thread_call(t) ==
    /\ threads[t].pc = "idle"
    /\ n_calls < MaxCalls
    /\ n_calls' = n_calls + 1
    /\ \E op \in {"get", "set", "setdefault"}, k \in DockerHubIds :
         threads' = [threads EXCEPT ![t] =
                        [op |-> op, key |-> k,
                         pc |-> IF op = "set" THEN "set_check" ELSE "get_check",
                         value |-> None, result |-> None, error |-> ""]]
    /\ UNCHANGED <<controllerVars, managerVars, instances, rerun, updater, submission, provider,
                   maxsize_per_challenge, caches, hits, misses, n_gets,
                   last_access, last_call>>

\* OrderedDict.__setitem__: a present key keeps its place.
SetItem(items, k, v) ==
    IF \E i \in 1..Len(items) : items[i].key = k
    THEN [i \in 1..Len(items) |->
             IF items[i].key = k THEN [key |-> k, value |-> v] ELSE items[i]]
    ELSE Append(items, [key |-> k, value |-> v])

\* The thread executes the statement it is at: of LRUCache.get (also called by
\* setdefault), then of LRUCache.set (also called by setdefault after a get
\* that returned None).
thread_step(t) ==
    LET th == threads[t]
        c == caches["a"]
        k == th.key
        At(stmt) == [th EXCEPT !.pc = stmt]
        Return(result) == [th EXCEPT !.pc = "idle", !.result = result]
        Raise == [th EXCEPT !.pc = "idle", !.error = "KeyError"]
        Do(th2, items, evictions) ==
            /\ threads' = [threads EXCEPT ![t] = th2]
            /\ caches' = [caches EXCEPT !["a"] =
                             [cache |-> items, evictions |-> evictions]]
    IN /\ th.pc # "idle"
       /\ CASE th.pc = "get_check" ->
                 IF k \in KeysOf(c) THEN Do(At("get_pop"), c.cache, c.evictions)
                 ELSE IF th.op = "get" THEN Do(Return(None), c.cache, c.evictions)
                 ELSE Do(At("set_check"), c.cache, c.evictions)
            [] th.pc = "get_pop" ->
                 IF k \in KeysOf(c)
                 THEN Do([At("get_insert") EXCEPT !.value = Some(ValueOf(c, k))],
                         Without(c.cache, k), c.evictions)
                 ELSE Do(Raise, c.cache, c.evictions)
            [] th.pc = "get_insert" ->
                 Do(Return(th.value), SetItem(c.cache, k, th.value[1]), c.evictions)
            [] th.pc = "set_check" ->
                 Do(At(IF k \in KeysOf(c) THEN "set_pop" ELSE "set_full"),
                    c.cache, c.evictions)
            [] th.pc = "set_pop" ->
                 IF k \in KeysOf(c)
                 THEN Do(At("set_full"), Without(c.cache, k), c.evictions)
                 ELSE Do(Raise, c.cache, c.evictions)
            [] th.pc = "set_full" ->
                 Do(At(IF Len(c.cache) >= maxsize_per_challenge
                       THEN "set_evict" ELSE "set_insert"),
                    c.cache, c.evictions)
            [] th.pc = "set_evict" ->
                 IF c.cache = <<>> THEN Do(Raise, c.cache, c.evictions)
                 ELSE Do(At("set_count"), Tail(c.cache), c.evictions)
            [] th.pc = "set_count" ->
                 Do(At("set_insert"), c.cache, c.evictions + 1)
            [] OTHER ->
                 Do(Return(IF th.op = "set" THEN None ELSE Some("result")),
                    SetItem(c.cache, k, "result"), c.evictions)
       /\ IF th.op = "get" /\ threads'[t].pc = "idle" /\ threads'[t].error = ""
          THEN IF threads'[t].result # None
               THEN hits' = hits + 1 /\ misses' = misses
               ELSE misses' = misses + 1 /\ hits' = hits
          ELSE UNCHANGED <<hits, misses>>
       /\ UNCHANGED <<controllerVars, managerVars, instances, rerun, updater, submission, provider,
                      maxsize_per_challenge, n_calls, n_gets, last_access,
                      last_call>>

InitThreads ==
    /\ NoChallengeRun
    /\ NoMinerManager
    /\ maxsize_per_challenge \in 1..MaxPerChallenge
    /\ caches = [ch \in {"a"} |-> NewLRUCache]
    /\ hits = 0
    /\ misses = 0
    /\ n_calls = 0
    /\ n_gets = 0
    /\ last_access = EmptyMap
    /\ last_call = None
    /\ threads = [t \in 1..2 |-> [op |-> "", key |-> 0, pc |-> "idle",
                                  value |-> None, result |-> None, error |-> ""]]

NextThreads == \E t \in 1..2 : thread_call(t) \/ thread_step(t)

SpecThreads == InitThreads /\ [][NextThreads]_vars

\* C25: when two threads interleave get, set and setdefault on one LRUCache at
\* any statement boundary, the size of the cache never exceeds maxsize and no
\* operation raises.
C25_ConsistentUnderInterleaving ==
    /\ Len(caches["a"].cache) <= maxsize_per_challenge
    /\ \A t \in DOMAIN threads : threads[t].error = ""

\* The scenario of C26 is over: a run of the base Controller with one task, no
\* baseline and one miner, whose solve gave an output that was sent to the score
\* endpoint, and nothing raised after that.
C26_Scenario ==
    /\ pc = "done"
    /\ variant = "base"
    /\ ~HasBaseline
    /\ Len(challenge_inputs) = 1
    /\ Len(miner_commits) = 1
    /\ score_requests = 1
    /\ \A log \in Range(scoring_logs[MinerKey(1)]) : log.miner_input # None

\* C26 as stated: the miner has exactly one scoring log, whose score is the
\* number the score endpoint returned, whose error is None (no string) and
\* whose baseline_score is None.
C26_OneLogWithScoreAndNoError ==
    C26_Scenario =>
        /\ Len(scoring_logs[MinerKey(1)]) = 1
        /\ scoring_logs[MinerKey(1)][1].score = scoring_logs[MinerKey(1)][1].raw
        /\ scoring_logs[MinerKey(1)][1].error \notin STRING
        /\ scoring_logs[MinerKey(1)][1].baseline_score = None

\* C26: the miner has exactly one scoring log, whose score is the number the
\* score endpoint returned, whose error is the empty string and whose
\* baseline_score is None; the log holds the task's input and the miner's output.
C26_OneLogWithScoreAndEmptyError ==
    C26_Scenario =>
        /\ Len(scoring_logs[MinerKey(1)]) = 1
        /\ scoring_logs[MinerKey(1)][1].score = scoring_logs[MinerKey(1)][1].raw
        /\ scoring_logs[MinerKey(1)][1].error = ""
        /\ scoring_logs[MinerKey(1)][1].baseline_score = None
        /\ scoring_logs[MinerKey(1)][1].miner_input = Some(challenge_inputs[1])
        /\ scoring_logs[MinerKey(1)][1].miner_output
              = Some(Output(MinerKey(1), challenge_inputs[1]))

\* C26: the scenario with a score endpoint that returned 0.9.
C26_Witness ==
    /\ C26_Scenario
    /\ scoring_logs[MinerKey(1)][1].raw = 90

\* C28: the except clause of a miner appends exactly one failure log (input
\* None, output None, score 0, the error text) to that miner's logs and touches
\* no other commit's logs; the except clause of the baseline or of a reference
\* appends nothing, raises nothing and the run goes on with the next commit; no
\* miner ever holds more than one failure log.
C28_OneFailureLogPerRaisingMiner ==
    /\ [][pc = "except" =>
            IF KindOf(cur) = "miner"
            THEN scoring_logs' =
                    [scoring_logs EXCEPT ![cur] = Append(@, FailureLog(exc))]
            ELSE /\ scoring_logs' = scoring_logs
                 /\ raised' = ""
                 /\ pos' = pos + 1]_vars
    /\ [](\A k \in MinerIndices :
             Cardinality({i \in 1..Len(scoring_logs[MinerKey(k)]) :
                            scoring_logs[MinerKey(k)][i].miner_input = None}) <= 1)

\* C28: a run with a task is over in which the baseline's processing raised and
\* left the baseline without a log, and a miner's processing raised, which left
\* the miner one failure log carrying the error text.
C28_Witness ==
    /\ pc = "done"
    /\ HasBaseline
    /\ challenge_inputs # <<>>
    /\ scoring_logs[BaselineKey] = <<>>
    /\ \E k \in MinerIndices :
          /\ scoring_logs[MinerKey(k)] # <<>>
          /\ LET last == scoring_logs[MinerKey(k)][Len(scoring_logs[MinerKey(k)])]
             IN /\ last.miner_input = None
                /\ last.miner_output = None
                /\ last.score = 0
                /\ last.error # ""

\* max(num_tasks, number of seed inputs).
C29_Length == IF num_tasks > Len(seed_inputs) THEN num_tasks ELSE Len(seed_inputs)

\* C29: the challenge input list starts as the seed inputs, in order, and grows
\* by fetched inputs only, up to length max(num_tasks, number of seed inputs),
\* which it has when the commits are processed; at most max_retries requests
\* are made for one input, a successful request appends its input and ends the
\* requests for it, a failed one changes no input, and the fetch raises only
\* when the last of max_retries requests for an input failed.
C29_SeedsThenFetchedInputs ==
    /\ []((pc # "setup_challenge" /\ setup_outcome = "ok") =>
            /\ Len(challenge_inputs) >= Len(seed_inputs)
            /\ Len(challenge_inputs) <= C29_Length
            /\ \A i \in 1..Len(challenge_inputs) :
                 challenge_inputs[i] =
                   IF i <= Len(seed_inputs) THEN seed_inputs[i] ELSE Input("task", i))
    /\ [](pos >= 1 => Len(challenge_inputs) = C29_Length)
    /\ [](attempt \in 0..(max_retries - 1))
    /\ [](raised = "Failed to get challenge" =>
            attempt = max_retries - 1 /\ Len(challenge_inputs) < C29_Length)
    /\ [][pc = "inputs" =>
            \/ /\ Len(challenge_inputs') = Len(challenge_inputs) + 1
               /\ attempt' = 0
               /\ pc' = "inputs"
            \/ /\ challenge_inputs' = challenge_inputs
               /\ attempt' = attempt + 1
               /\ pc' = "inputs"
            \/ /\ challenge_inputs' = challenge_inputs
               /\ attempt = max_retries - 1
               /\ pc' = "raised"
            \/ /\ challenge_inputs' = challenge_inputs
               /\ Len(challenge_inputs) = C29_Length
               /\ attempt' = attempt
               /\ pos' = 1]_vars

\* C29: after the seed inputs, the next input is at its last request: two
\* requests for it have failed.
C29_Witness ==
    /\ pc = "inputs"
    /\ seed_inputs # <<>>
    /\ Len(challenge_inputs) < C29_Length
    /\ attempt = max_retries - 1

\* The miners of a base Controller whose sandbox came up and whose processing
\* is over: torn down, and without a failure log.
C30_Scored ==
    {k \in MinerIndices :
        /\ variant = "base"
        /\ k \in torn_down
        /\ \A log \in Range(scoring_logs[MinerKey(k)]) : log.miner_input # None}

MaxVersion == 3
MaxChecks == 4

\* What git can do in one update check: whether opening the repository and
\* fetching origin, the pull, the soft reset with merge, the hard reset with
\* merge and the final read of HEAD succeed.
GitOutcomes == [fetch : BOOLEAN, pull : BOOLEAN, soft : BOOLEAN, hard : BOOLEAN,
                final : BOOLEAN]

\* AutoUpdater._restart_process: SIGTERM, then SIGKILL, to the own process.
restart_process(u) == [u EXCEPT !.calls = Append(@, "restart")]

\* AutoUpdater._check_for_updates under git outcomes g. Every exception is
\* caught by the outer except clause, which logs and returns.
check_for_updates(u, g) ==
    LET c == [u EXCEPT !.checks = @ + 1, !.calls = <<>>, !.found = None]
    IN IF ~g.fetch THEN c
       ELSE LET f == [c EXCEPT !.found = <<u.head, u.origin>>]
                updated == [f EXCEPT !.head = u.origin]
            IN IF u.head = u.origin THEN f
               ELSE IF ~g.pull /\ ~g.soft /\ ~g.hard THEN f
               ELSE IF ~g.final THEN updated
               ELSE restart_process(
                        [updated EXCEPT !.stop_flag = TRUE,
                                        !.calls = Append(@, "set")])

\* AutoUpdater.__init__ in a process started on the commit head: a new Event
\* and one update check before the monitor thread starts.
AutoUpdater(head, origin, g) ==
    check_for_updates([NoUpdater EXCEPT !.head = head, !.origin = origin], g)

\* The validator process starts, or is started again after a restart.
start_process ==
    /\ updater.checks = 0 \/ "restart" \in Range(updater.calls)
    /\ \E g \in GitOutcomes : updater' = AutoUpdater(updater.head, updater.origin, g)
    /\ UNCHANGED <<controllerVars, cacheVars, managerVars, instances, rerun, submission, provider>>

\* AutoUpdater._monitor: one pass of the loop that makes an update check.
monitor ==
    /\ updater.checks \in 1..(MaxChecks - 1)
    /\ ~updater.stop_flag
    /\ \E g \in GitOutcomes : updater' = check_for_updates(updater, g)
    /\ UNCHANGED <<controllerVars, cacheVars, managerVars, instances, rerun, submission, provider>>

\* A commit is made on the update branch.
commit_to_branch ==
    /\ updater.origin < MaxVersion
    /\ updater' = [updater EXCEPT !.origin = @ + 1]
    /\ UNCHANGED <<controllerVars, cacheVars, managerVars, instances, rerun, submission, provider>>

InitUpdater ==
    /\ NoChallengeRun
    /\ NoScoringCache
    /\ NoMinerManager

NextUpdater == start_process \/ monitor \/ commit_to_branch

SpecUpdater == InitUpdater /\ [][NextUpdater]_vars

\* C27: after an update check that found the running version equal to the
\* latest version of the update branch, no restart was requested and the stop
\* flag is unset; after one that found them different, the check set the stop
\* flag and then requested a restart.
C27_RestartExactlyOnNewVersion ==
    updater.found # None =>
        IF updater.found[1] = updater.found[2]
        THEN updater.calls = <<>> /\ ~updater.stop_flag
        ELSE updater.calls = <<"set", "restart">> /\ updater.stop_flag

\* ------------------------------------------------- scores of missing outputs
\* C32: every scoring log of a miner whose output is None has score 0, in
\* every controller variant, with or without a scored baseline.
C32_NoOutputMeansZeroScore ==
    \A k \in MinerIndices : \A log \in Range(scoring_logs[MinerKey(k)]) :
        log.miner_output = None => log.score = 0

\* ------------------------------------------------ the references of a miner
\* One pass of the inner loop of _run_reference_comparison_inputs, over
\* scoring log idx of reference refi.
C33_ReferenceLogStep ==
    /\ pc = "compare"
    /\ refi <= Len(ReferenceList)
    /\ idx <= Len(ReferenceList[refi].scoring_logs)

\* The miners before the current one that have scoring logs.
C33_PeersBefore == {j \in 1..(cur[2] - 1) : scoring_logs[MinerKey(j)] # <<>>}

C34_ScoreRequestStep ==
    /\ score_requests' > score_requests
    /\ pos >= 1
    /\ pos <= Len(RunOrder)
    /\ KindOf(cur) = "miner"

\* C34 as stated: in every variant no comparison of a miner is made before its
\* score requests are complete: when a score request is sent for a miner, no
\* comparison of that miner has been stored.
C34_ScoreBeforeCompare ==
    [][C34_ScoreRequestStep => \A id \in DOMAIN comparison_logs[cur[2]] :
                                  comparison_logs[cur[2]][id] = <<>>]_vars

\* C34: in the base and rqa controllers the comparisons of a miner come after
\* its solve and score requests: a score request finds no comparison stored
\* and a comparison finds one log per input. In ABSController the order is the
\* other way round: score requests are sent only when the comparisons with
\* every reference are over. In HBController no score request is sent for a
\* miner. In every variant a miner that was torn down gets no further log, the
\* miners are torn down in order, whatever failed, and the challenge container
\* is removed after the last miner's teardown.
C34_PerMinerOrder ==
    /\ [][C34_ScoreRequestStep =>
            CASE variant \in {"base", "rqa"} ->
                    /\ DOMAIN comparison_logs[cur[2]] = {}
                    /\ pc \in {"score", "rqa_solve"}
              [] variant = "abs" ->
                    /\ pc = "gate_score"
                    /\ refi > Len(ReferenceList)
              [] OTHER -> FALSE]_vars
    /\ []((pc = "compare" /\ variant \in {"base", "rqa"}) =>
             Len(scoring_logs[cur]) = Len(challenge_inputs))
    /\ [][\A k \in torn_down :
             /\ scoring_logs'[MinerKey(k)] = scoring_logs[MinerKey(k)]
             /\ comparison_logs'[k] = comparison_logs[k]
             /\ k \in torn_down']_vars
    /\ []((pos >= 1 /\ pos <= Len(RunOrder) /\ KindOf(cur) = "miner") =>
             torn_down = 1..(cur[2] - 1))
    /\ [][(challenge_live /\ ~challenge_live') =>
             (pos >= 1 /\ torn_down = MinerIndices
              /\ \A k \in MinerIndices : MinerKey(k) \notin miner_live)]_vars

\* C34: a run of ABSController is over in which a miner was compared with a
\* reference and scored after that.
C34_Witness ==
    /\ pc = "done"
    /\ variant = "abs"
    /\ score_requests >= 1
    /\ \E k \in MinerIndices : \E id \in DOMAIN comparison_logs[k] :
          comparison_logs[k][id] # <<>>

\* ------------------------------------------- the requests of the rqa controller
\* C36: the solve requests to one miner are issued concurrently: when a solve
\* request is sent, the response to no other solve request of the miner has
\* been awaited and collected.
C36_SolveRequestsIssuedTogether ==
    [][(pc = "rqa_solve" /\ idx <= Len(challenge_inputs)) => responses = <<>>]_vars

\* ------------------------------------------- sets of a key that is present
\* Calls of get, set and remove on one cache of at most MaxCacheSize entries,
\* with two values to set.
NextReplace ==
    \/ \E k \in CacheKeys : lru_get(k)
    \/ \E k \in CacheKeys, v \in ScoringResults : lru_set(k, v)
    \/ \E k \in CacheKeys : ScoringLRUCache_remove("a", k)

SpecReplace == InitLRU /\ [][NextReplace]_vars

\* C39: with maxsize >= 1 a set(k, v) of a key that is in the cache, full or
\* not, leaves the other entries and their order as they were, puts k with
\* value v at the most recently used end, and changes neither the size nor the
\* eviction counter; a remove takes out its key only and does not change the
\* eviction counter; and no key is ever held twice.
C39_SetOfPresentKeyEvictsNothing ==
    /\ [][\A k \in CacheKeys :
            /\ \A v \in ScoringResults :
                  (/\ maxsize_per_challenge >= 1
                   /\ k \in KeysOf(caches["a"])
                   /\ lru_set(k, v))
                  => /\ caches'["a"].cache
                          = Append(Without(caches["a"].cache, k),
                                   [key |-> k, value |-> v])
                     /\ Len(caches'["a"].cache) = Len(caches["a"].cache)
                     /\ caches'["a"].evictions = caches["a"].evictions
            /\ ScoringLRUCache_remove("a", k)
                  => /\ caches'["a"].cache = Without(caches["a"].cache, k)
                     /\ caches'["a"].evictions = caches["a"].evictions]_vars
    /\ [](\A i, j \in 1..Len(caches["a"].cache) :
             caches["a"].cache[i].key = caches["a"].cache[j].key => i = j)

\* C39: keys 1 and 2 filled a cache of two entries, then key 1 was set again:
\* it is the most recently used key, key 2 is still there, nothing was evicted.
C39_Witness ==
    /\ maxsize_per_challenge = 2
    /\ n_calls = 3
    /\ last_call[1].op = "set"
    /\ last_call[1].key = 1
    /\ caches["a"].cache = <<[key |-> 2, value |-> "result"],
                             [key |-> 1, value |-> "empty"]>>
    /\ caches["a"].evictions = 0

\* --------------------------------------- fixed references that count as scored
\* C40: a fixed reference image that a controller created now would skip as
\* already scored is cached with at least one scoring log that has an output.
C40_SkippedOnlyIfScoredWithOutput ==
    \A id \in DOMAIN cache :
       FixedToScore(<<id>>, cache) = <<>> =>
          \E log \in Range(cache[id].scoring_logs) : log.miner_output # None

\* --------------------------------------------------- scores that were defaulted
\* C31: when the solve of a task gave an output and the score endpoint did not
\* answer a number, so that the score is the default 0, the scoring log written
\* for the task has a non-empty error.
C31_DefaultedScoreHasError ==
    [][(/\ pc = "score"
        /\ idx <= Len(challenge_inputs)
        /\ score_task("ok", [kind |-> "bad", val |-> 0]))
       => \E key \in AllKeys :
             /\ scoring_logs'[key] # scoring_logs[key]
             /\ LET log == scoring_logs'[key][Len(scoring_logs'[key])]
                IN log.error \in STRING /\ log.error # ""]_vars

\* ============================================ the input a miner is sent
\* The keys of a challenge input and the keys that can be configured in
\* challenge_info["exclude_miner_input_key"]; "label" is in no input.
InputKeys == {"prompt", "answer"}
ExcludeKeys == {"answer", "label"}
InputValues == {Some(1), Some(2)}

\* The number of miners the input is submitted to.
MaxSubmits == 2

\* miner_input = challenge_input, without the copy: the two names are one
\* object, held in obj; ref is what miner_input names.
copy_none(x) == [obj |-> x, ref |-> "obj"]

\* copy.deepcopy(challenge_input): miner_input names a new object, copy.
copy_deepcopy(x) == [obj |-> x, copy |-> x, ref |-> "copy"]

\* Controller._submit_challenge_to_miner up to the request: the objects after
\* `for key in exclude_miner_input_key: miner_input[key] = None`, which also
\* gives miner_input the keys it did not have.
miner_input_of(challenge_input, exclude) ==
    LET m == copy_deepcopy(challenge_input)
    IN [m EXCEPT ![m.ref] = [k \in DOMAIN m[m.ref] \cup exclude |->
                                IF k \in exclude THEN None ELSE m[m.ref][k]]]

InitSubmit == NoChallengeRun /\ NoScoringCache /\ NoMinerManager

\* A controller is configured and the challenge generates an input; then one
\* iteration of Controller._score_miner_with_new_inputs for the input and the
\* next miner: the solve request, the score request when the solve gave an
\* output, the scoring log.
NextSubmit ==
    \/ /\ submission = NoSubmission
       /\ \E exclude \in SUBSET ExcludeKeys, keys \in SUBSET InputKeys \ {{}} :
            \E in \in [keys -> InputValues] :
               submission' = [NoSubmission EXCEPT !.exclude = exclude, !.given = in,
                                                  !.challenge_input = in]
       /\ UNCHANGED <<controllerVars, cacheVars, managerVars, instances, rerun, updater, provider>>
    \/ /\ submission # NoSubmission
       /\ Len(submission.requests) < MaxSubmits
       /\ \E outcome \in SolveOutcomes :
            LET m == miner_input_of(submission.challenge_input, submission.exclude)
            IN submission' =
                  [submission EXCEPT
                     !.challenge_input = m.obj,
                     !.requests = Append(@, m[m.ref]),
                     !.scored = IF outcome = "ok" THEN Append(@, m.obj) ELSE @,
                     !.logged = Append(@, m.obj)]
       /\ UNCHANGED <<controllerVars, cacheVars, managerVars, instances, rerun, updater, provider>>

SpecSubmit == InitSubmit /\ [][NextSubmit]_vars

\* C35: the challenge input is at all times as it was generated, and so are the
\* miner_input of every scoring log and of every score request; every solve
\* request holds every configured exclude key with the value null and every
\* other key of the input with the input's value, and nothing else.
C35_InputUnchangedExcludedKeysNull ==
    /\ submission.challenge_input = submission.given
    /\ \A i \in 1..Len(submission.logged) : submission.logged[i] = submission.given
    /\ \A i \in 1..Len(submission.scored) : submission.scored[i] = submission.given
    /\ \A i \in 1..Len(submission.requests) :
          LET body == submission.requests[i]
          IN /\ DOMAIN body = DOMAIN submission.given \cup submission.exclude
             /\ \A k \in DOMAIN body :
                   body[k] = IF k \in submission.exclude THEN None
                             ELSE submission.given[k]

\* C35: an input with a prompt and an answer was submitted to two miners with
\* the answer excluded; the first miner's output was scored.
C35_Witness ==
    /\ submission.exclude = {"answer"}
    /\ submission.given = [k \in InputKeys |-> IF k = "answer" THEN Some(2) ELSE Some(1)]
    /\ Len(submission.requests) = 2
    /\ Len(submission.logged) = 2
    /\ Len(submission.scored) >= 1
    /\ submission.requests[2]["answer"] = None

\* ===================================================== the score providers
\* Times are in days, scores in hundredths. A decayed score is held as the
\* number it is times the decay period, so that it stays an integer.
MaxSlots == 2

\* decay_period of the two managers, in days.
ToxicDecayDays == 5
RqaDecayDays == 14
decay_period(class) == IF class = "toxic" THEN ToxicDecayDays ELSE RqaDecayDays

CommitScores == {-50, 0, 100}

\* A commit of a miner state: best commits were scored at day 0, latest commits
\* at day 0 or 2. The accepted flag of a best commit is not read.
Commits(stamps) == [score : CommitScores, scored_timestamp : stamps,
                    accepted : BOOLEAN]

\* The miner states a manager can hold: any slot number up to metagraph.n (which
\* is no slot), the hotkey of a slot or one that is registered nowhere.
MinerStates ==
    [miner_uid : 0..MaxSlots, miner_hotkey : {Hotkey(h) : h \in 0..MaxSlots},
     best_commit : {None} \cup {Some(c) : c \in {d \in Commits({0}) : d.accepted}},
     latest_commit : {None} \cup {Some(c) : c \in Commits({0, 2})}]

\* A second state: slot 1 with its registered hotkey and a best commit only.
SecondStates ==
    {st \in MinerStates : /\ st.miner_uid = 1 /\ st.miner_hotkey = Hotkey(1)
                          /\ st.latest_commit = None
                          /\ st.best_commit # None
                          /\ st.best_commit[1].score >= 0}

\* The score of a commit that is taken at full value whatever its age.
decayed_score_undecayed(commit, current_time, period) == commit.score * period

\* commit.score * max(0, 1 - time_elapsed / decay_period), times the period.
decayed_score(commit, current_time, period) ==
    LET time_elapsed == current_time - commit.scored_timestamp
        left == period - time_elapsed
    IN commit.score * (IF left > 0 THEN left ELSE 0)

\* get_challenge_scores up to the softmax: the array scores, indexed by uid
\* from 0, after the loop over self.miner_states.
RECURSIVE pre_softmax_scores(_, _, _, _)
pre_softmax_scores(states, n, current_time, period) ==
    IF states = <<>> THEN [uid \in 0..(n - 1) |-> 0]
    ELSE LET st == states[Len(states)]
             before == pre_softmax_scores(SubSeq(states, 1, Len(states) - 1), n,
                                          current_time, period)
             of_best == IF st.best_commit # None
                        THEN decayed_score(st.best_commit[1], current_time, period)
                        ELSE 0
             best_score ==
                IF st.latest_commit # None /\ st.latest_commit[1].accepted
                THEN LET latest_score == decayed_score(st.latest_commit[1],
                                                       current_time, period)
                     IN IF latest_score > of_best THEN latest_score ELSE of_best
                ELSE of_best
         IN IF /\ st.miner_uid \in 0..(n - 1)
               /\ st.miner_hotkey \in {Hotkey(u) : u \in 0..(n - 1)}
               /\ st.miner_hotkey = Hotkey(st.miner_uid)
            THEN [before EXCEPT ![st.miner_uid] = best_score]
            ELSE before

\* The softmax of the two managers. An entry of the result is None for the
\* number 0.0 and Some(d) for exp(d / temperature) / sum of the exponentials,
\* a positive number, d being the distance of the (clipped) score from the
\* largest one. The toxic manager takes the softmax of the whole array; the rqa
\* manager's _apply_softmax returns an all-zero array as it is and otherwise
\* takes the softmax of the non-zero scores, clipped at 0, leaving the zeros.
apply_softmax(class, scores) ==
    LET Clip(x) == IF x < 0 THEN 0 ELSE x
        Top(S) == CHOOSE x \in S : \A y \in S : y <= x
    IN IF class = "toxic"
       THEN [uid \in DOMAIN scores |->
                Some(scores[uid] - Top({scores[u] : u \in DOMAIN scores}))]
       ELSE LET nonzero == {u \in DOMAIN scores : scores[u] # 0}
            IN [uid \in DOMAIN scores |->
                   IF uid \in nonzero
                   THEN Some(Clip(scores[uid])
                             - Top({Clip(scores[u]) : u \in nonzero}))
                   ELSE None]

InitProvider == NoChallengeRun /\ NoScoringCache /\ NoMinerManager

\* A manager of one of the two classes has its miner states, one or two with
\* different keys, on a metagraph of n slots; then get_challenge_scores is
\* called on it, at a day not before the commits were scored.
NextProvider ==
    \/ /\ provider = NoProvider
       /\ \E class \in {"toxic", "rqa"}, n \in 1..MaxSlots, st \in MinerStates :
            \E more \in {<<>>} \cup {<<x>> : x \in SecondStates} :
               /\ \A i \in 1..Len(more) :
                     <<more[i].miner_uid, more[i].miner_hotkey>>
                        # <<st.miner_uid, st.miner_hotkey>>
               /\ provider' = [NoProvider EXCEPT !.class = class, !.n = n,
                                                 !.miner_states = <<st>> \o more]
       /\ UNCHANGED <<controllerVars, cacheVars, managerVars, instances, rerun,
                      updater, submission>>
    \/ /\ provider # NoProvider
       /\ ~provider.called
       /\ \E current_time \in {2, 4, decay_period(provider.class),
                               decay_period(provider.class) + 2} :
            LET scores == pre_softmax_scores(provider.miner_states, provider.n,
                                             current_time,
                                             decay_period(provider.class))
            IN provider' = [provider EXCEPT
                              !.called = TRUE,
                              !.current_time = current_time,
                              !.scores = scores,
                              !.returned = apply_softmax(provider.class, scores)]
       /\ UNCHANGED <<controllerVars, cacheVars, managerVars, instances, rerun,
                      updater, submission>>

SpecProvider == InitProvider /\ [][NextProvider]_vars

\* The miner states for slot uid that hold the hotkey registered there.
matching_states(uid) ==
    {i \in 1..Len(provider.miner_states) :
        /\ provider.miner_states[i].miner_uid = uid
        /\ provider.miner_states[i].miner_hotkey = Hotkey(uid)}

\* What a commit scored at day t with score s counts at the day of the call:
\* s at day t, falling by s / period a day, 0 from day t + period on.
C37_Counts(commit) ==
    LET period == decay_period(provider.class)
        age == provider.current_time - commit.scored_timestamp
    IN IF age >= period THEN 0 ELSE commit.score * period - commit.score * age

\* C37: after get_challenge_scores, the score before the softmax of a slot whose
\* registered hotkey has a miner state is the largest of: what the best commit
\* counts (0 when there is none), and, when the latest commit is accepted, what
\* the latest commit counts; a commit counts its score times a factor that
\* falls linearly from 1 at its scoring day to 0 at the end of the decay period
\* and stays 0; a latest commit that is not accepted counts nothing.
C37_MaxOfDecayedBestAndAcceptedLatest ==
    provider.called =>
       \A uid \in 0..(provider.n - 1) : \A i \in matching_states(uid) :
          LET st == provider.miner_states[i]
              best == IF st.best_commit = None THEN 0
                      ELSE C37_Counts(st.best_commit[1])
              cands == {best} \cup
                       (IF st.latest_commit # None /\ st.latest_commit[1].accepted
                        THEN {C37_Counts(st.latest_commit[1])} ELSE {})
          IN /\ provider.scores[uid] \in cands
             /\ \A c \in cands : c <= provider.scores[uid]

\* C37: the toxic manager was asked at day 4 about a state whose best commit
\* scored 1.0 at day 0 and whose accepted latest commit scored 1.0 at day 2:
\* the latest commit counts 3/5, the best 1/5, the slot's score is 3/5.
C37_Witness ==
    /\ provider.called
    /\ provider.class = "toxic"
    /\ provider.current_time = 4
    /\ \E i \in matching_states(0) :
          LET st == provider.miner_states[i]
          IN /\ st.best_commit = Some([score |-> 100, scored_timestamp |-> 0,
                                       accepted |-> TRUE])
             /\ st.latest_commit = Some([score |-> 100, scored_timestamp |-> 2,
                                         accepted |-> TRUE])
    /\ provider.scores[0] = 300

\* C38: in the vector get_challenge_scores returns, a slot without a miner state
\* of its registered hotkey, or whose score before the softmax is 0, has the
\* score 0; and when no slot has a miner state of its registered hotkey, every
\* entry is 0.
C38_ZeroForSlotsWithoutScore ==
    provider.called =>
       \A uid \in 0..(provider.n - 1) :
          (matching_states(uid) = {} \/ provider.scores[uid] = 0)
             => provider.returned[uid] = None

====
